---------------------------- MODULE Spec2Model ----------------------------
(***************************************************************************)
(* Model of the pomelo session command layer (handshake negotiation,       *)
(* connection state gating) and of the proto schema compiler (line parser, *)
(* schema builder, content version) of cherry's net/parser/pomelo.         *)
(*                                                                         *)
(* Go maps are functions over a set of strings; map iteration order, which *)
(* Go leaves unspecified, is an explicit input (visit) of every operator   *)
(* that ranges over a map.  Strings that reach a serializer carry their    *)
(* bytes through Utf8, so JSON texts and checksums are the real ones.      *)
(***************************************************************************)
EXTENDS Integers, Sequences, FiniteSets, TLC

VARIABLES
    parser,      \* Parser{options, messages}
    built,       \* outcome of the latest buildSchema call
    firstBuilt,  \* outcome of the first buildSchema call on this parser
    builds,      \* number of buildSchema calls made
    disk,        \* the source files, by path: their lines, or a read error
    fileIdx,     \* Parse: index in files of the file being parsed
    lineIdx,     \* parseFile: index of the next line to scan, 0 before os.Open
    scan,        \* parseFile: currentMessage, braceCount, inMessage
    failed,      \* Parse: the files whose parseFile returned an error
    cmd,         \* the package variable cmd (Command)
    agents,      \* per connection: the agent's state and the buffers sent to it
    dispatched,  \* the calls made to cmd.onDataRouteFunc
    alive,       \* FALSE once the process died of a stack overflow
    inits,       \* number of Command.init calls
    configs,     \* number of SetProtoOptions and SetProtos calls
    packets,     \* number of packets handled
    lastPacket   \* the packet last handled

buildVars == <<parser, built, firstBuilt, builds>>
parseVars == <<disk, fileIdx, lineIdx, scan, failed>>
sessionVars == <<cmd, agents, dispatched, alive, inits, configs, packets, lastPacket>>
vars == <<buildVars, parseVars, sessionVars>>

-----------------------------------------------------------------------------
(* Bounds *)

MaxBuilds == 2     \* buildSchema calls per parser

-----------------------------------------------------------------------------
(* types: field types, modifiers, reserved key *)

TypeString == "string"
TypeBool == "bool"
TypeInt32 == "int32"
TypeUInt32 == "uInt32"
TypeSInt32 == "sInt32"
TypeInt64 == "int64"
TypeUInt64 == "uInt64"
TypeSInt64 == "sInt64"
TypeFloat == "float"
TypeDouble == "double"
TypeBytes == "bytes"
TypeMessage == "message"

ModifierOptional == "optional"
ModifierRepeated == "repeated"

MessagesKey == "__messages__"

protoTypeMapping ==
    "string" :> TypeString @@ "bool" :> TypeBool @@ "int32" :> TypeInt32 @@
    "uint32" :> TypeUInt32 @@ "sint32" :> TypeSInt32 @@ "int64" :> TypeInt64 @@
    "uint64" :> TypeUInt64 @@ "sint64" :> TypeSInt64 @@ "float" :> TypeFloat @@
    "double" :> TypeDouble @@ "bytes" :> TypeBytes @@ "fixed32" :> TypeUInt32 @@
    "fixed64" :> TypeUInt64 @@ "sfixed32" :> TypeInt32 @@ "sfixed64" :> TypeInt64

GetPomeloType(protoType) ==
    IF protoType \in DOMAIN protoTypeMapping
    THEN [t |-> protoTypeMapping[protoType], ok |-> TRUE]
    ELSE [t |-> "", ok |-> FALSE]

EmptyMap == << >>

\* m[k] = v of a Go map (insert or overwrite)
MapSet(m, k, v) == [x \in DOMAIN m \cup {k} |-> IF x = k THEN v ELSE m[x]]

\* delete(m, k) of a Go map
MapDelete(m, k) == [x \in DOMAIN m \ {k} |-> m[x]]

ProtoField(name, type, tag, repeated, typeName) ==
    [Name |-> name, Type |-> type, Tag |-> tag, Repeated |-> repeated, TypeName |-> typeName]

ProtoMessage(name, fields) == [Name |-> name, Fields |-> fields]

-----------------------------------------------------------------------------
(* Strings as bytes *)

AtomBytes ==
  "string" :> <<115, 116, 114, 105, 110, 103>> @@
  "bool" :> <<98, 111, 111, 108>> @@
  "int32" :> <<105, 110, 116, 51, 50>> @@
  "uInt32" :> <<117, 73, 110, 116, 51, 50>> @@
  "sInt32" :> <<115, 73, 110, 116, 51, 50>> @@
  "int64" :> <<105, 110, 116, 54, 52>> @@
  "uInt64" :> <<117, 73, 110, 116, 54, 52>> @@
  "sInt64" :> <<115, 73, 110, 116, 54, 52>> @@
  "float" :> <<102, 108, 111, 97, 116>> @@
  "double" :> <<100, 111, 117, 98, 108, 101>> @@
  "bytes" :> <<98, 121, 116, 101, 115>> @@
  "message" :> <<109, 101, 115, 115, 97, 103, 101>> @@
  "optional" :> <<111, 112, 116, 105, 111, 110, 97, 108>> @@
  "repeated" :> <<114, 101, 112, 101, 97, 116, 101, 100>> @@
  "__messages__" :> <<95, 95, 109, 101, 115, 115, 97, 103, 101, 115, 95, 95>> @@
  "server" :> <<115, 101, 114, 118, 101, 114>> @@
  "client" :> <<99, 108, 105, 101, 110, 116>> @@
  "version" :> <<118, 101, 114, 115, 105, 111, 110>> @@
  "code" :> <<99, 111, 100, 101>> @@
  "sys" :> <<115, 121, 115>> @@
  "heartbeat" :> <<104, 101, 97, 114, 116, 98, 101, 97, 116>> @@
  "dict" :> <<100, 105, 99, 116>> @@
  "serializer" :> <<115, 101, 114, 105, 97, 108, 105, 122, 101, 114>> @@
  "protos" :> <<112, 114, 111, 116, 111, 115>> @@
  "key" :> <<107, 101, 121>> @@
  "value" :> <<118, 97, 108, 117, 101>> @@
  "A" :> <<65>> @@
  "B" :> <<66>> @@
  "C" :> <<67>> @@
  "x" :> <<120>> @@
  "y" :> <<121>> @@
  "a" :> <<97>> @@
  "b" :> <<98>> @@
  "c" :> <<99>> @@
  "m" :> <<109>> @@
  "r1" :> <<114, 49>> @@
  "r2" :> <<114, 50>> @@
  "json" :> <<106, 115, 111, 110>> @@
  "onMsg" :> <<111, 110, 77, 115, 103>>

\* names of ordinary messages and of fields that the inputs use
MsgNames == {"A", "B", "C"}
FieldNames == {"x", "y", "a", "b", "c", "m", "key", "value"}

\* currentMessage.Name + "_" + fieldName + "Entry"
EntryName(msgName, fieldName) == msgName \o "_" \o fieldName \o "Entry"

EntryNames == { EntryName(mn, fn) : mn \in MsgNames, fn \in FieldNames }

AllTypeNames == MsgNames \cup EntryNames

ScalarTypes == { protoTypeMapping[t] : t \in DOMAIN protoTypeMapping }

-----------------------------------------------------------------------------
(* buildFieldKey *)

buildFieldKey(field) ==
    LET modifier == IF field.Repeated THEN ModifierRepeated ELSE ModifierOptional
        typeStr == IF field.Type = TypeMessage
                   THEN "message " \o field.TypeName
                   ELSE field.Type
    IN  modifier \o " " \o typeStr \o " " \o field.Name

\* the one element of a singleton set
Only(S) == CHOOSE v \in S : TRUE

\* the bytes of the entry names, from the bytes ab of the atoms
EntryBytesOf(ab) ==
    [e \in EntryNames |->
        Only({ ab[t[1]] \o <<95>> \o ab[t[2]] \o <<69, 110, 116, 114, 121>> :
                 t \in { u \in MsgNames \X FieldNames : EntryName(u[1], u[2]) = e } })]

\* the fields whose keys the inputs can produce
KeyShapes ==
    [Repeated : BOOLEAN, Type : ScalarTypes, TypeName : {""}, Name : FieldNames]
    \cup [Repeated : BOOLEAN, Type : {TypeMessage}, TypeName : AllTypeNames, Name : FieldNames]

\* the bytes of the field keys, from the bytes nb of the atoms and entry names
KeyBytesOf(nb) ==
    [k \in { buildFieldKey(f) : f \in KeyShapes } |->
        Only({ nb[IF f.Repeated THEN ModifierRepeated ELSE ModifierOptional]
               \o <<32>>
               \o (IF f.Type = TypeMessage
                   THEN nb["message"] \o <<32>> \o nb[f.TypeName]
                   ELSE nb[f.Type])
               \o <<32>> \o nb[f.Name] :
                 f \in { g \in KeyShapes : buildFieldKey(g) = k } })]

\* the bytes of every string that reaches a serializer or a comparison
StringBytes ==
    Only({ Only({ nb @@ KeyBytesOf(nb) : nb \in {ab @@ EntryBytesOf(ab)} }) : ab \in {AtomBytes} })

\* []byte(s)
Utf8(s) == StringBytes[s]

\* bytewise comparison of two byte strings, as Go's string <
RECURSIVE BytesLess(_, _, _)
BytesLess(a, b, i) ==
    IF i > Len(a) THEN i <= Len(b)
    ELSE IF i > Len(b) THEN FALSE
    ELSE IF a[i] # b[i] THEN a[i] < b[i]
    ELSE BytesLess(a, b, i + 1)

StrLess(s, t) == \E bytes \in {StringBytes} : BytesLess(bytes[s], bytes[t], 1)

\* the elements of a set of strings in ascending byte order
RECURSIVE SortedKeys(_)
SortedKeys(S) ==
    IF S = {} THEN << >>
    ELSE LET k == CHOOSE k \in S : \A o \in S \ {k} : StrLess(k, o)
         IN  <<k>> \o SortedKeys(S \ {k})

\* n!
RECURSIVE Factorial(_)
Factorial(n) == IF n <= 1 THEN 1 ELSE n * Factorial(n - 1)

\* the k-th of the n! orders of the n elements of keys, 0 <= k < n!
RECURSIVE NthOrder(_, _)
NthOrder(keys, k) ==
    IF Len(keys) = 0 THEN << >>
    ELSE LET f == Factorial(Len(keys) - 1)
             i == (k \div f) + 1
         IN  <<keys[i]>>
             \o NthOrder(SubSeq(keys, 1, i - 1) \o SubSeq(keys, i + 1, Len(keys)), k % f)

\* Go leaves the iteration order of a map unspecified and the runtime varies
\* it from one range statement to the next.  A choice visit makes a map of n
\* keys iterate in its (visit mod n!)-th order: the choices 0..5 give a map
\* of up to three keys, the largest the builder ranges over here, every one
\* of its orders
VisitOrders == 0..5

\* for k := range m, under iteration order visit
RangeOrder(S, visit) ==
    NthOrder(SortedKeys(S), visit % Factorial(Cardinality(S)))

-----------------------------------------------------------------------------
(* JSON encoding (jsoniter, ConfigCompatibleWithStandardLibrary: map keys sorted) *)

RECURSIVE Digits(_)
Digits(n) == IF n < 10 THEN <<48 + n>> ELSE Digits(n \div 10) \o <<48 + (n % 10)>>

MarshalInt(n) == IF n < 0 THEN <<45>> \o Digits(0 - n) ELSE Digits(n)

MarshalString(s) == <<34>> \o Utf8(s) \o <<34>>

RECURSIVE JoinMembers(_, _)
JoinMembers(members, i) ==
    IF i > Len(members) THEN << >>
    ELSE (IF i > 1 THEN <<44>> ELSE << >>) \o members[i] \o JoinMembers(members, i + 1)

MarshalObject(members) == <<123>> \o JoinMembers(members, 1) \o <<125>>

Member(nameBytes, valueBytes) == <<34>> \o nameBytes \o <<34, 58>> \o valueBytes

\* an encoder that writes the keys of a map in iteration order
encodeOrderUnsorted(keys, visit) == RangeOrder(keys, visit)

\* the order in which the encoder writes the keys of a map that Go iterates
\* in order visit: SortMapKeys sorts them
encodeOrder(keys, visit) == SortedKeys(keys)

\* jsoniter.ConfigCompatibleWithStandardLibrary.Marshal on the maps of a
\* schema: the keys of every map in sorted order
MarshalMsgSchema(ms, visit) ==
    LET keys == encodeOrder(DOMAIN ms, visit)
    IN  MarshalObject([i \in 1..Len(keys) |-> Member(Utf8(keys[i]), MarshalInt(ms[keys[i]]))])

MarshalMsgDict(d, visit) ==
    LET keys == encodeOrder(DOMAIN d, visit)
    IN  MarshalObject([i \in 1..Len(keys) |->
            Member(Utf8(keys[i]), MarshalMsgSchema(d[keys[i]], visit))])

MarshalRouteSchema(rs, visit) ==
    LET keys == encodeOrder(DOMAIN rs, visit)
    IN  MarshalObject([i \in 1..Len(keys) |->
            Member(Utf8(keys[i]),
                   IF keys[i] = MessagesKey
                   THEN MarshalMsgDict(rs[keys[i]], visit)
                   ELSE MarshalInt(rs[keys[i]]))])

MarshalRoutes(routes, visit) ==
    LET keys == encodeOrder(DOMAIN routes, visit)
    IN  MarshalObject([i \in 1..Len(keys) |->
            Member(Utf8(keys[i]), MarshalRouteSchema(routes[keys[i]], visit))])

\* every order in which Go may iterate a map of keys S
RangeOrders(S) ==
    { NthOrder(keys, k) : keys \in {SortedKeys(S)}, k \in 0..(Factorial(Cardinality(S)) - 1) }

\* the member lists for keys[i..], each value in any of its encodings
RECURSIVE MemberChoices(_, _, _)
MemberChoices(keys, vals, i) ==
    IF i > Len(keys) THEN { << >> }
    ELSE { <<Member(Utf8(keys[i]), v)>> \o rest :
             v \in vals[keys[i]], rest \in MemberChoices(keys, vals, i + 1) }

\* jsoniter.Marshal (ConfigDefault) on a map: the encoder does not sort, it
\* writes the keys as Go iterates them, and Go iterates every map in an order
\* of its own.  vals gives, for each key, the byte strings that its value can
\* be written as; the result is every byte string the call can return
MarshalMapAnyOrder(vals) ==
    UNION { { MarshalObject(members) : members \in MemberChoices(keys, vals, 1) } :
              keys \in RangeOrders(DOMAIN vals) }

\* jsoniter.Marshal on the maps of a schema: the byte strings it can return
MarshalMsgSchemaAnyOrder(ms) ==
    MarshalMapAnyOrder([k \in DOMAIN ms |-> { MarshalInt(ms[k]) }])

MarshalMsgDictAnyOrder(d) ==
    MarshalMapAnyOrder([n \in DOMAIN d |-> MarshalMsgSchemaAnyOrder(d[n])])

\* a Go value that has no JSON form (a channel, a func): jsoniter.Marshal
\* returns an error, no byte string
Unmarshalable == [unmarshalable |-> TRUE]

MarshalRouteSchemaAnyOrder(rs) ==
    IF rs = Unmarshalable THEN {}
    ELSE MarshalMapAnyOrder([k \in DOMAIN rs |->
        IF k = MessagesKey THEN MarshalMsgDictAnyOrder(rs[k]) ELSE { MarshalInt(rs[k]) }])

MarshalRoutesAnyOrder(routes) ==
    MarshalMapAnyOrder([r \in DOMAIN routes |-> MarshalRouteSchemaAnyOrder(routes[r])])

-----------------------------------------------------------------------------
(* crc32.ChecksumIEEE on 32-bit words kept as two 16-bit halves *)

\* a XOR b on n-bit words, bit by bit
RECURSIVE XorBits(_, _, _)
XorBits(a, b, n) ==
    IF n = 0 THEN 0
    ELSE (((a % 2) + (b % 2)) % 2) + 2 * XorBits(a \div 2, b \div 2, n - 1)

\* a XOR b on bytes, tabulated
XorTable == [a \in 0..255 |-> [b \in 0..255 |-> XorBits(a, b, 8)] @@ << >>] @@ << >>

\* a XOR b on 16-bit words
Xor(a, b) == XorTable[a \div 256][b \div 256] * 256 + XorTable[a % 256][b % 256]

RECURSIVE CrcShift(_, _)
CrcShift(c, k) ==
    IF k = 0 THEN c
    ELSE LET sh == [hi |-> c.hi \div 2, lo |-> (c.lo \div 2) + (c.hi % 2) * 32768]
         IN  CrcShift(IF c.lo % 2 = 1
                      THEN [hi |-> Xor(sh.hi, 60856), lo |-> Xor(sh.lo, 33568)]
                      ELSE sh,
                      k - 1)

\* the IEEE table (polynomial 0xEDB88320)
CrcTable == [b \in 0..255 |-> CrcShift([hi |-> 0, lo |-> b], 8)] @@ << >>

\* crc = table[byte(crc) ^ b] ^ (crc >> 8), the XOR taken byte by byte: the
\* top byte of crc >> 8 is 0
CrcUpdate(c, b) ==
    LET t == CrcTable[XorTable[c.lo % 256][b]]
    IN  [hi |-> (t.hi \div 256) * 256 + XorTable[t.hi % 256][c.hi \div 256],
         lo |-> XorTable[t.lo \div 256][c.hi % 256] * 256
                + XorTable[t.lo % 256][c.lo \div 256]]

\* the bytes lo..hi of bs folded into c, left to right
RECURSIVE CrcRange(_, _, _, _)
CrcRange(bs, lo, hi, c) ==
    IF lo > hi THEN c
    ELSE IF lo = hi THEN CrcUpdate(c, bs[lo])
    ELSE LET mid == (lo + hi) \div 2
             c1 == CrcRange(bs, lo, mid, c)
         IN  IF c1.lo >= 0 THEN CrcRange(bs, mid + 1, hi, c1) ELSE c1

ChecksumIEEE(bs) ==
    LET c == CrcRange(bs, 1, Len(bs), [hi |-> 65535, lo |-> 65535])
    IN  [hi |-> 65535 - c.hi, lo |-> 65535 - c.lo]

-----------------------------------------------------------------------------
(* calculateSchemaVersion *)

\* hashData{server, client, __messages__ omitempty} as JSON
HashJson(schema, visit) ==
    MarshalObject(
        <<Member(Utf8("server"), MarshalRoutes(schema.Server, visit)),
          Member(Utf8("client"), MarshalRoutes(schema.Client, visit))>>
        \o (IF DOMAIN schema.Messages = {} THEN << >>
            ELSE <<Member(Utf8(MessagesKey),
                          MarshalMsgDict(schema.Messages, visit))>>))

\* int(hash & 0x7FFFFFFF)
calculateSchemaVersion(schema, visit) ==
    Only({ (hash.hi % 32768) * 65536 + hash.lo :
             hash \in { ChecksumIEEE(HashJson(schema, visit)) } })

-----------------------------------------------------------------------------
(* Schema builder *)

\* the orders of fields of equal tag that the model explores
TieOrders == {"source", "reverse"}

\* sortSlice leaving the fields in their source order
sortSliceUnsorted(fields, tie) == fields

\* sort.Slice(sortedFields, less by Tag) on a copy of msg.Fields.  sort.Slice
\* is not stable: tie decides whether fields of equal tag keep their source
\* order or come out reversed.
sortSlice(fields, tie) ==
    LET n == Len(fields)
        Before(i, j) == \/ fields[i].Tag < fields[j].Tag
                        \/ fields[i].Tag = fields[j].Tag /\ (IF tie = "source" THEN i < j ELSE i > j)
        perm == CHOOSE q \in [1..n -> 1..n] : \A i, j \in 1..n : i < j => Before(q[i], q[j])
    IN  [k \in 1..n |-> fields[perm[k]]]

\* state of one nested-message collection: the collected map, the names whose
\* definition was walked (in order), and whether the goroutine stack overflowed
NewCollection == [collected |-> EmptyMap, visits |-> << >>, overflow |-> FALSE]

RECURSIVE collectNestedMessages(_, _, _, _, _)
RECURSIVE collectFields(_, _, _, _, _, _)

\* for _, field := range sortedFields { msgSchema[fieldKey] = field.Tag; recurse }
collectFields(p, sorted, i, w, tie, stack) ==
    IF i > Len(sorted) \/ w.cs.overflow THEN w
    ELSE collectFields(p, sorted, i + 1,
             [msgSchema |-> MapSet(w.msgSchema, buildFieldKey(sorted[i]), sorted[i].Tag),
              cs |-> IF sorted[i].Type = TypeMessage
                     THEN collectNestedMessages(p, sorted[i].TypeName, w.cs, tie, stack)
                     ELSE w.cs],
             tie, stack)

\* collectNestedMessages leaving out the fields of a message that is nested
\* deeper than the route's own fields
collectNestedShallow(p, msgName, cs, tie, stack) ==
    IF msgName \in DOMAIN cs.collected THEN cs
    ELSE IF msgName \notin DOMAIN p.messages THEN cs
    ELSE IF \E k \in 1..Len(stack) : stack[k] = msgName
         THEN [cs EXCEPT !.overflow = TRUE]
    ELSE Only({ IF w.cs.overflow THEN w.cs
                ELSE [w.cs EXCEPT !.collected =
                         MapSet(@, msgName, IF Len(stack) > 0 THEN EmptyMap ELSE w.msgSchema)] :
                  w \in { collectFields(p, sortSlice(p.messages[msgName].Fields, tie), 1,
                                        [msgSchema |-> EmptyMap,
                                         cs |-> [cs EXCEPT !.visits = Append(@, msgName)]],
                                        tie, Append(stack, msgName)) } })

\* stack holds the names of the calls that have not returned yet, outermost
\* first.  collected[msgName] is set last, after the loop over the fields, so
\* a name on the stack is never in collected: a call for such a name runs
\* the same loop again, and again below it, without end, until the Go runtime
\* stops the program at its stack limit.  Calls that nest without repeating a
\* name return, however deep.  w is the state after the loop over the fields
collectNestedMessages(p, msgName, cs, tie, stack) ==
    IF msgName \in DOMAIN cs.collected THEN cs
    ELSE IF msgName \notin DOMAIN p.messages THEN cs
    ELSE IF \E k \in 1..Len(stack) : stack[k] = msgName
         THEN [cs EXCEPT !.overflow = TRUE]
    ELSE Only({ IF w.cs.overflow THEN w.cs
                ELSE [w.cs EXCEPT !.collected = MapSet(@, msgName, w.msgSchema)] :
                  w \in { collectFields(p, sortSlice(p.messages[msgName].Fields, tie), 1,
                                        [msgSchema |-> EmptyMap,
                                         cs |-> [cs EXCEPT !.visits = Append(@, msgName)]],
                                        tie, Append(stack, msgName)) } })

\* for _, field := range sortedFields { result[fieldKey] = field.Tag; collect }
RECURSIVE routeFields(_, _, _, _, _)
routeFields(p, sorted, i, w, tie) ==
    IF i > Len(sorted) \/ w.cs.overflow THEN w
    ELSE routeFields(p, sorted, i + 1,
             [result |-> MapSet(w.result, buildFieldKey(sorted[i]), sorted[i].Tag),
              cs |-> IF sorted[i].Type = TypeMessage
                     THEN collectNestedMessages(p, sorted[i].TypeName, w.cs, tie, << >>)
                     ELSE w.cs],
             tie)

\* w is the state after the loop over the fields
buildRouteSchema(p, msg, tie) ==
    Only({ [overflow |-> w.cs.overflow,
            visits |-> w.cs.visits,
            result |-> IF DOMAIN w.cs.collected # {}
                       THEN MapSet(w.result, MessagesKey, w.cs.collected)
                       ELSE w.result] :
             w \in { routeFields(p, sortSlice(msg.Fields, tie), 1,
                                 [result |-> EmptyMap, cs |-> NewCollection], tie) } })

\* for route, msgName := range routes { if msg, ok := p.messages[msgName]; ok { out[route] = ... } }
RECURSIVE buildRoutes(_, _, _, _, _, _)
buildRoutes(p, routes, order, i, acc, tie) ==
    IF i > Len(order) \/ acc.overflow THEN acc
    ELSE IF routes[order[i]] \in DOMAIN p.messages
    THEN buildRoutes(p, routes, order, i + 1,
             Only({ [routes |-> IF r.overflow THEN acc.routes
                                ELSE MapSet(acc.routes, order[i], r.result),
                     overflow |-> r.overflow,
                     visits |-> Append(acc.visits, r.visits)] :
                      r \in { buildRouteSchema(p, p.messages[routes[order[i]]], tie) } }),
             tie)
    ELSE buildRoutes(p, routes, order, i + 1, acc, tie)

\* for name, msgSchema := range msgsMap { first one seen is kept; a different one is a conflict }
RECURSIVE mergeMessages(_, _, _, _)
mergeMessages(msgsMap, order, i, g) ==
    IF i > Len(order) THEN g
    ELSE LET name == order[i]
         IN  IF name \in DOMAIN g.global
             THEN mergeMessages(msgsMap, order, i + 1,
                                IF g.global[name] # msgsMap[name]
                                THEN [g EXCEPT !.conflicts = @ + 1]
                                ELSE g)
             ELSE mergeMessages(msgsMap, order, i + 1,
                                [g EXCEPT !.global = MapSet(@, name, msgsMap[name])])

\* collectGlobalMessages without the delete(schemaMap, MessagesKey)
RECURSIVE collectGlobalKeepingKey(_, _, _, _)
collectGlobalKeepingKey(order, i, g, visit) ==
    IF i > Len(order) THEN g
    ELSE LET schemaMap == g.routes[order[i]]
         IN  IF MessagesKey \notin DOMAIN schemaMap
             THEN collectGlobalKeepingKey(order, i + 1, g, visit)
             ELSE LET msgsMap == schemaMap[MessagesKey]
                  IN  collectGlobalKeepingKey(order, i + 1,
                          mergeMessages(msgsMap, RangeOrder(DOMAIN msgsMap, visit), 1, g), visit)

\* g is [routes, global, conflicts]: the route map (whose schemas are edited
\* in place), the global dictionary and the number of conflict warnings
RECURSIVE collectGlobalMessages(_, _, _, _)
collectGlobalMessages(order, i, g, visit) ==
    IF i > Len(order) THEN g
    ELSE LET schemaMap == g.routes[order[i]]
         IN  IF MessagesKey \notin DOMAIN schemaMap
             THEN collectGlobalMessages(order, i + 1, g, visit)
             ELSE LET msgsMap == schemaMap[MessagesKey]
                      g1 == mergeMessages(msgsMap, RangeOrder(DOMAIN msgsMap, visit), 1, g)
                  IN  collectGlobalMessages(order, i + 1,
                          [g1 EXCEPT !.routes = MapSet(@, order[i], MapDelete(schemaMap, MessagesKey))],
                          visit)

NoSchema == [Version |-> 0, Server |-> EmptyMap, Client |-> EmptyMap, Messages |-> EmptyMap]

\* the two loops over ServerRoutes and ClientRoutes; a stack overflow in the
\* first ends the call before the second
buildRouteMaps(p, ord) ==
    Only({ [server |-> server,
            client |-> IF server.overflow THEN server
                       ELSE buildRoutes(p, p.options.ClientRoutes,
                                        RangeOrder(DOMAIN p.options.ClientRoutes, ord.visit), 1,
                                        [routes |-> EmptyMap, overflow |-> FALSE,
                                         visits |-> server.visits],
                                        ord.tie)] :
             server \in { buildRoutes(p, p.options.ServerRoutes,
                                      RangeOrder(DOMAIN p.options.ServerRoutes, ord.visit), 1,
                                      [routes |-> EmptyMap, overflow |-> FALSE, visits |-> << >>],
                                      ord.tie) } })

\* if p.options.GlobalMessages { collect from Server, then from Client }
globalContent(server, client, visit) ==
    Only({ Only({ [Server |-> gs.routes, Client |-> gc.routes, Messages |-> gc.global,
                   conflicts |-> gc.conflicts] :
                    gc \in { collectGlobalMessages(RangeOrder(DOMAIN client, visit), 1,
                                 [routes |-> client, global |-> gs.global,
                                  conflicts |-> gs.conflicts],
                                 visit) } }) :
             gs \in { collectGlobalMessages(RangeOrder(DOMAIN server, visit), 1,
                          [routes |-> server, global |-> EmptyMap, conflicts |-> 0],
                          visit) } })

\* the schema's server, client and messages, and the conflict warnings logged
schemaContent(p, maps, visit) ==
    IF p.options.GlobalMessages
    THEN globalContent(maps.server.routes, maps.client.routes, visit)
    ELSE [Server |-> maps.server.routes, Client |-> maps.client.routes,
          Messages |-> EmptyMap, conflicts |-> 0]

\* schemaVersion computing the version from the content whatever is configured
schemaVersionAlwaysComputed(p, content, visit) == calculateSchemaVersion(content, visit)

\* if p.options.Version > 0 { use it } else { calculateSchemaVersion(schema) }
schemaVersion(p, content, visit) ==
    IF p.options.Version > 0
    THEN p.options.Version
    ELSE calculateSchemaVersion(content, visit)

\* ord is [visit, tie]: the map iteration order and the order of equal tags.
\* The outcome is the schema, or crashed when a goroutine stack overflow
\* killed the process; visits lists, per built route, the names walked.
buildSchema(p, ord) ==
    Only({ IF maps.client.overflow
           THEN [crashed |-> TRUE, schema |-> NoSchema, conflicts |-> 0,
                 visits |-> maps.client.visits]
           ELSE Only({ [crashed |-> FALSE,
                        schema |-> [Version |-> schemaVersion(p, content, ord.visit),
                                    Server |-> content.Server,
                                    Client |-> content.Client,
                                    Messages |-> content.Messages],
                        conflicts |-> content.conflicts,
                        visits |-> maps.client.visits] :
                         content \in { schemaContent(p, maps, ord.visit) } }) :
             maps \in { buildRouteMaps(p, ord) } })

-----------------------------------------------------------------------------
(* Grammar parser *)

(***************************************************************************)
(* A source line is kept as what the regular expressions of parseFile see  *)
(* in it: its kind and captures, and its numbers of "{" and "}".           *)
(*   blank    empty after trimming, or starting with "//"                  *)
(*   message  matches messageRegex: name, and "{" present or not           *)
(*   map      matches mapRegex: key and value type tokens, name, tag       *)
(*   field    matches fieldRegex: repeated, type token (\w+, so a single  *)
(*            segment), name, tag                                          *)
(*   other    matches none of them (a lone brace, an option, ...)          *)
(* A map type token is the sequence of its dot-separated segments.         *)
(***************************************************************************)
BlankLine == [kind |-> "blank", opens |-> 0, closes |-> 0]
MessageLine(name, brace) ==
    [kind |-> "message", name |-> name, opens |-> IF brace THEN 1 ELSE 0, closes |-> 0]
MapLine(keyType, valueType, name, tag, closes) ==
    [kind |-> "map", keyType |-> keyType, valueType |-> valueType, name |-> name,
     tag |-> tag, opens |-> 0, closes |-> closes]
FieldLine(repeated, type, name, tag, closes) ==
    [kind |-> "field", repeated |-> repeated, type |-> type, name |-> name,
     tag |-> tag, opens |-> 0, closes |-> closes]
OtherLine(opens, closes) == [kind |-> "other", opens |-> opens, closes |-> closes]

\* foo.bar.Baz -> Baz
normalizeTypeName(t) == t[Len(t)]

NilMessage == [nil |-> TRUE]

\* the local variables of parseFile at its start
NewScan == [currentMessage |-> NilMessage, braceCount |-> 0, inMessage |-> FALSE]

\* the map branch: the entry message built for the field
mapEntryMessage(ownerName, line) ==
    LET keyType == normalizeTypeName(line.keyType)
        valueType == normalizeTypeName(line.valueType)
        k == GetPomeloType(keyType)
        v == GetPomeloType(valueType)
        keyField == ProtoField("key", IF k.ok THEN k.t ELSE TypeString, 1, FALSE, "")
        valueField == IF v.ok
                      THEN ProtoField("value", v.t, 2, FALSE, "")
                      ELSE ProtoField("value", TypeMessage, 2, FALSE, valueType)
    IN  ProtoMessage(EntryName(ownerName, line.name), <<keyField, valueField>>)

\* the map branch: the field added to the current message
mapField(ownerName, line) ==
    ProtoField(line.name, TypeMessage, line.tag, TRUE, EntryName(ownerName, line.name))

\* the generic branch: the field added to the current message
plainField(line) ==
    LET t == GetPomeloType(line.type[1])
    IN  IF t.ok
        THEN ProtoField(line.name, t.t, line.tag, line.repeated, "")
        ELSE ProtoField(line.name, TypeMessage, line.tag, line.repeated,
                        normalizeTypeName(line.type))

\* whether the entry message of a map field is stored in the registry
registerEntry(messages, entryMsgName) == entryMsgName \notin DOMAIN messages

\* one iteration of the scanner loop: s is the local state, messages the registry
parseLine(messages, s, line) ==
    IF line.kind = "blank" THEN [messages |-> messages, scan |-> s]
    ELSE IF line.kind = "message"
    THEN LET count == line.opens - line.closes
         IN  [messages |-> messages,
              scan |-> [currentMessage |-> ProtoMessage(line.name, << >>),
                        inMessage |-> TRUE,
                        braceCount |-> IF count = 0 THEN 1 ELSE count]]
    ELSE IF s.inMessage /\ s.currentMessage # NilMessage
    THEN LET braceCount == s.braceCount + line.opens - line.closes
             cur == s.currentMessage
             entry == mapEntryMessage(cur.Name, line)
             messages1 == IF line.kind = "map" /\ registerEntry(messages, entry.Name)
                          THEN MapSet(messages, entry.Name, entry)
                          ELSE messages
             cur1 == IF line.kind = "map"
                     THEN [cur EXCEPT !.Fields = Append(@, mapField(cur.Name, line))]
                     ELSE IF line.kind = "field"
                     THEN [cur EXCEPT !.Fields = Append(@, plainField(line))]
                     ELSE cur
         IN  IF braceCount <= 0
             THEN [messages |-> MapSet(messages1, cur1.Name, cur1),
                   scan |-> [currentMessage |-> NilMessage, inMessage |-> FALSE,
                             braceCount |-> braceCount]]
             ELSE [messages |-> messages1,
                   scan |-> [currentMessage |-> cur1, inMessage |-> TRUE,
                             braceCount |-> braceCount]]
    ELSE [messages |-> messages, scan |-> s]

\* the scanner loop from line i on
RECURSIVE scanLines(_, _, _, _)
scanLines(messages, s, lines, i) ==
    IF i > Len(lines) THEN messages
    ELSE LET r == parseLine(messages, s, lines[i])
         IN  scanLines(r.messages, r.scan, lines, i + 1)

ReadError == [err |-> TRUE]

\* parseFile: the registry after the file; os.Open failing leaves it as it was.
\* A file that opens is the lines the scanner delivers and scanErr, whether
\* scanner.Err() is non-nil once Scan has returned false (a failed read, or a
\* line longer than the scanner's buffer): return scanner.Err()
parseFile(messages, file) ==
    IF file = ReadError
    THEN [err |-> TRUE, messages |-> messages]
    ELSE [err |-> file.scanErr, messages |-> scanLines(messages, NewScan, file.lines, 1)]

-----------------------------------------------------------------------------
(* Schema builder: inputs and specification *)

\* field lists a message of the registry may have: a scalar, a reference to
\* B after a larger tag, a repeated reference to A, two references with the
\* same tag, the same key under two tags, and a reference to C
BodyChoices ==
    { <<ProtoField("x", TypeString, 1, FALSE, "")>>,
      <<ProtoField("y", TypeInt32, 2, FALSE, ""), ProtoField("b", TypeMessage, 1, FALSE, "B")>>,
      <<ProtoField("a", TypeMessage, 1, TRUE, "A")>>,
      <<ProtoField("c", TypeMessage, 1, FALSE, "C"), ProtoField("b", TypeMessage, 1, FALSE, "B")>>,
      <<ProtoField("x", TypeString, 2, FALSE, ""), ProtoField("x", TypeString, 1, FALSE, "")>>,
      <<ProtoField("c", TypeMessage, 3, TRUE, "C")>> }

Registries ==
    UNION { [names -> BodyChoices] : names \in SUBSET MsgNames }

RegistryOf(bodies) == [n \in DOMAIN bodies |-> ProtoMessage(n, bodies[n])]

ServerRouteChoices == { EmptyMap, "r1" :> "A", "r1" :> "B" @@ "r2" :> "A" }
ClientRouteChoices == { EmptyMap, "r1" :> "C" @@ "r2" :> "B" }
VersionChoices == {0, 7}

Options(version, global, serverRoutes, clientRoutes) ==
    [ProtoFiles |-> << >>, ProtoDir |-> "", Version |-> version, GlobalMessages |-> global,
     ServerRoutes |-> serverRoutes, ClientRoutes |-> clientRoutes]

\* every combination of the choices, and one configuration with a negative version
OptionChoices ==
    { Options(v, g, s, c) : v \in VersionChoices, g \in BOOLEAN,
                            s \in ServerRouteChoices, c \in ClientRouteChoices }
    \cup { Options(-1, FALSE, "r1" :> "A", EmptyMap) }

BuildOrders == [visit : VisitOrders, tie : TieOrders]

\* the size of the largest map that buildSchema ranges over on parser p: the
\* route maps of the options and of the schema, and with GlobalMessages the
\* __messages__ map of a route, whose names are registered ones
LargestRanged(p) ==
    LET sizes == { Cardinality(DOMAIN p.options.ServerRoutes),
                   Cardinality(DOMAIN p.options.ClientRoutes) }
                 \cup (IF p.options.GlobalMessages
                       THEN { Cardinality(DOMAIN p.messages) } ELSE {})
    IN  CHOOSE n \in sizes : \A m \in sizes : m <= n

\* whether sort.Slice meets two fields of one tag in a message of p
EqualTags(p) ==
    \E n \in DOMAIN p.messages :
        \E i, j \in 1..Len(p.messages[n].Fields) :
            i < j /\ p.messages[n].Fields[i].Tag = p.messages[n].Fields[j].Tag

\* the orders that differ on p: every order of each map the build ranges
\* over, and both outcomes of the sort where tags are equal
BuildOrdersOf(p) ==
    [visit : 0..(Factorial(LargestRanged(p)) - 1),
     tie : IF EqualTags(p) THEN TieOrders ELSE {"source"}]

NotBuilt == [crashed |-> FALSE, schema |-> NoSchema, conflicts |-> 0, visits |-> << >>]

-----------------------------------------------------------------------------
(* Parse *)

HasProtoConfig(o) == o.ProtoDir # "" \/ Len(o.ProtoFiles) > 0

NewParser(opts) == [options |-> opts, messages |-> EmptyMap]

\* os.Open(path): a path the file system does not hold fails like an unreadable one
OpenFile(fs, path) == IF path \in DOMAIN fs.files THEN fs.files[path] ELSE ReadError

\* getProtoFiles: the listed files, then those filepath.Walk finds under ProtoDir
getProtoFiles(o, fs) ==
    IF o.ProtoDir = "" THEN [err |-> FALSE, files |-> o.ProtoFiles]
    ELSE IF fs.walk.err THEN [err |-> TRUE, files |-> << >>]
    ELSE [err |-> FALSE, files |-> o.ProtoFiles \o fs.walk.paths]

\* for _, file := range files { if err := p.parseFile(file); err != nil { continue } }
RECURSIVE parseFiles(_, _, _, _, _)
parseFiles(messages, fs, files, i, failures) ==
    IF i > Len(files) THEN [messages |-> messages, failed |-> failures]
    ELSE LET r == parseFile(messages, OpenFile(fs, files[i]))
         IN  parseFiles(r.messages, fs, files, i + 1,
                        IF r.err THEN failures \cup {i} ELSE failures)

\* what Parse returns without building: a nil schema, with or without an error
NothingParsed(p, err) ==
    [err |-> err, isNil |-> TRUE, out |-> NotBuilt, messages |-> p.messages, failed |-> {}]

\* for each file parseFile, then buildSchema
parseAndBuild(p, fs, files, ord) ==
    Only({ [err |-> FALSE, isNil |-> FALSE,
            out |-> buildSchema([p EXCEPT !.messages = r.messages], ord),
            messages |-> r.messages, failed |-> r.failed] :
             r \in { parseFiles(p.messages, fs, files, 1, {}) } })

\* Parse: isNil when it returns a nil schema, err when it returns an error
Parse(p, fs, ord) ==
    IF ~HasProtoConfig(p.options) THEN NothingParsed(p, FALSE)
    ELSE Only({ IF fl.err THEN NothingParsed(p, TRUE)
                ELSE IF Len(fl.files) = 0 THEN NothingParsed(p, FALSE)
                ELSE parseAndBuild(p, fs, fl.files, ord) :
                  fl \in { getProtoFiles(p.options, fs) } })

-----------------------------------------------------------------------------
(* Session command layer *)

DataHeartbeat == "heartbeat"
DataDict == "dict"
DataSerializer == "serializer"
DataProtos == "protos"

Handshake == "Handshake"
HandshakeAck == "HandshakeAck"
Heartbeat == "Heartbeat"
Data == "Data"
PacketTypes == {Handshake, HandshakeAck, Heartbeat, Data}

AgentInit == "Init"
AgentWaitAck == "WaitAck"
AgentWorking == "Working"

NilSchema == [nil |-> TRUE]
NilOptions == [nil |-> TRUE]
NilPacket == [nil |-> TRUE]

\* before any packet was handled
NoPacket == [conn |-> "", type |-> "", pkg |-> NilPacket]

\* make([]byte, 0), and the nil slice
EmptyBytes == [ptype |-> "none"]

\* ppacket.Encode(type, body) -> bytes, error: a byte buffer is kept as the
\* packet it frames, a handshake body as the document jsoniter.Marshal was
\* given. Which packets the codec rejects is not known: whether the call
\* succeeds (ok) is drawn with the call; with an error it returns no bytes
Encode(type, body, ok) ==
    IF ok THEN [err |-> FALSE, bytes |-> [ptype |-> type, body |-> body]]
    ELSE [err |-> TRUE, bytes |-> EmptyBytes]

\* whether each ppacket.Encode call of init succeeds: the full handshake
\* payload, the one without protos, the heartbeat
EncodeOutcomes == [handshake : BOOLEAN, handshakeNoProtos : BOOLEAN, heartbeat : BOOLEAN]

\* every call succeeds, every call fails
EncodeOk == [handshake |-> TRUE, handshakeNoProtos |-> TRUE, heartbeat |-> TRUE]

EncodeFailing == [handshake |-> FALSE, handshakeNoProtos |-> FALSE, heartbeat |-> FALSE]

\* the outcomes that differ in the handshake payloads
HandshakeEncodeOutcomes == { enc \in EncodeOutcomes : enc.heartbeat }

\* the package variable cmd
NewCommand ==
    [sysData |-> EmptyMap,
     handshakeBytes |-> EmptyBytes,
     handshakeBytesNoProtos |-> EmptyBytes,
     heartbeatBytes |-> EmptyBytes,
     onPacketFuncMap |-> EmptyMap,
     protoOptions |-> NilOptions,
     protoSchema |-> NilSchema]

setData(sysData, name, value) ==
    IF name \in DOMAIN sysData THEN sysData ELSE MapSet(sysData, name, value)

\* SetProtos(schema)
SetProtosOf(c, schema) ==
    IF schema # NilSchema
    THEN [c EXCEPT !.protoSchema = schema, !.sysData = setData(@, DataProtos, schema)]
    ELSE c

\* parseAndSetProtos, given what parser.Parse() returned
parseAndSetProtos(c, parsed) ==
    IF c.protoOptions = NilOptions \/ ~HasProtoConfig(c.protoOptions) THEN c
    ELSE IF parsed.err THEN c
    ELSE IF ~parsed.isNil
    THEN [c EXCEPT !.protoSchema = parsed.out.schema,
                   !.sysData = setData(@, DataProtos, parsed.out.schema)]
    ELSE c

\* jsoniter.Marshal of a ProtoSchema: the struct's fields in the order of
\* their declaration, version, and server, client and __messages__ unless
\* empty (omitempty), each map in any order: the byte strings it can return
MarshalProtoSchema(schema) ==
    { MarshalObject(<<Member(Utf8("version"), MarshalInt(schema.Version))>>
                    \o server \o client \o messages) :
        server \in (IF DOMAIN schema.Server = {} THEN { << >> }
                    ELSE { <<Member(Utf8("server"), b)>> :
                             b \in MarshalRoutesAnyOrder(schema.Server) }),
        client \in (IF DOMAIN schema.Client = {} THEN { << >> }
                    ELSE { <<Member(Utf8("client"), b)>> :
                             b \in MarshalRoutesAnyOrder(schema.Client) }),
        messages \in (IF DOMAIN schema.Messages = {} THEN { << >> }
                      ELSE { <<Member(Utf8(MessagesKey), b)>> :
                               b \in MarshalMsgDictAnyOrder(schema.Messages) }) }

\* jsoniter.Marshal of a sys entry: seconds, the route dictionary, the
\* serializer's name, the schema
MarshalSysValue(name, value) ==
    IF name = DataProtos THEN MarshalProtoSchema(value)
    ELSE IF name = DataDict THEN MarshalMsgSchemaAnyOrder(value)
    ELSE IF name = DataSerializer THEN { MarshalString(value) }
    ELSE { MarshalInt(value) }

\* jsoniter.Marshal(handshakeData) on the map {code: 200, sys: m}: every byte
\* string the call can return
MarshalHandshakeData(doc) ==
    MarshalMapAnyOrder(
        "code" :> { MarshalInt(doc.code) }
        @@ "sys" :> MarshalMapAnyOrder([k \in DOMAIN doc.sys |->
                                           MarshalSysValue(k, doc.sys[k])]))

\* the err result of jsoniter.Marshal(handshakeData): a value of the
\* document has no JSON form; the other sys entries are a number, a string and
\* a map of numbers, and the maps of a schema hold whatever the host put there
MarshalError(doc) ==
    /\ DataProtos \in DOMAIN doc.sys
    /\ \E routes \in {doc.sys[DataProtos].Server, doc.sys[DataProtos].Client} :
          \E r \in DOMAIN routes : routes[r] = Unmarshalable

\* setHandshakeBytes writing both payloads whatever Marshal and Encode return,
\* and copying every sys entry into the second payload
setHandshakeBytesCopyingAll(c, enc) ==
    [c EXCEPT !.handshakeBytes =
                  Encode(Handshake, [code |-> 200, sys |-> c.sysData], TRUE).bytes,
              !.handshakeBytesNoProtos =
                  Encode(Handshake, [code |-> 200, sys |-> c.sysData], TRUE).bytes]

\* setHandshakeBytes: the full payload, then the one without the protos
\* entry; it returns at the first Marshal or Encode that fails. An Encode
\* that fails has its (empty) result assigned to the field before the return
setHandshakeBytes(c, enc) ==
    LET handshakeData == [code |-> 200, sys |-> c.sysData]
        full == Encode(Handshake, handshakeData, enc.handshake)
        c1 == [c EXCEPT !.handshakeBytes = full.bytes]
        sysDataNoProtos == [k \in DOMAIN c.sysData \ {DataProtos} |-> c.sysData[k]]
        handshakeDataNoProtos == [code |-> 200, sys |-> sysDataNoProtos]
        lean == Encode(Handshake, handshakeDataNoProtos, enc.handshakeNoProtos)
    IN  IF MarshalError(handshakeData) THEN c
        ELSE IF full.err THEN c1
        ELSE IF MarshalError(handshakeDataNoProtos) THEN c1
        ELSE [c1 EXCEPT !.handshakeBytesNoProtos = lean.bytes]

\* setHeartbeatBytes: the field is written only when Encode succeeds
setHeartbeatBytes(c, enc) ==
    LET heartbeatBytes == Encode(Heartbeat, EmptyBytes, enc.heartbeat)
    IN  IF heartbeatBytes.err THEN c ELSE [c EXCEPT !.heartbeatBytes = heartbeatBytes.bytes]

\* setOnPacketFunc installing the four handlers whatever the table holds
setOnPacketFuncOverwriting(c) ==
    [c EXCEPT !.onPacketFuncMap =
        Handshake :> "handshakeCommand" @@ HandshakeAck :> "handshakeACKCommand" @@
        Heartbeat :> "heartbeatCommand" @@ Data :> "dataCommand"]

DefaultPacketFuncs ==
    Handshake :> "handshakeCommand" @@ HandshakeAck :> "handshakeACKCommand" @@
    Heartbeat :> "heartbeatCommand" @@ Data :> "dataCommand"

setOnPacketFunc(c) ==
    [c EXCEPT !.onPacketFuncMap =
        [t \in DOMAIN @ \cup DOMAIN DefaultPacketFuncs |->
            IF t \in DOMAIN @ THEN @[t] ELSE DefaultPacketFuncs[t]]]

\* Command.init, given the application's values, what parser.Parse() returned
\* and what its Encode calls return
cmdInit(c, app, parsed, enc) ==
    LET sys1 == setData(c.sysData, DataHeartbeat, app.heartbeat)
        sys2 == setData(sys1, DataDict, app.dict)
        sys3 == setData(sys2, DataSerializer, app.serializer)
        c1 == parseAndSetProtos([c EXCEPT !.sysData = sys3], parsed)
    IN  setOnPacketFunc(setHeartbeatBytes(setHandshakeBytes(c1, enc), enc))

\* agent.SendRaw(bytes)
SendRaw(agent, bytes) == [agent EXCEPT !.sent = Append(@, bytes)]

\* agent.SetState(state)
SetState(agent, state) == [agent EXCEPT !.state = state]

\* jsoniter.Unmarshal(pkg.Data(), &clientHandshake): the bytes are kept as
\* what they hold: not JSON at all, or an object whose sys.protoVersion is
\* absent, an integer, or a value of another type
UnmarshalClientHandshake(data) ==
    IF data.kind = "json" /\ data.pv.t = "int" THEN [err |-> FALSE, ProtoVersion |-> data.pv.v]
    ELSE IF data.kind = "json" /\ data.pv.t = "absent" THEN [err |-> FALSE, ProtoVersion |-> 0]
    ELSE [err |-> TRUE, ProtoVersion |-> 0]

\* versionMatched without the comparison of the two versions
versionMatchedAnyDeclared(clientProtoVersion, serverProtoVersion) ==
    clientProtoVersion > 0

\* whether the two versions let the handshake leave the schema out
versionMatched(clientProtoVersion, serverProtoVersion) ==
    clientProtoVersion > 0 /\ clientProtoVersion = serverProtoVersion

\* the bytes handshakeCommand answers with
handshakeResponse(c, pkg) ==
    IF pkg # NilPacket /\ pkg.data.kind # "empty"
    THEN LET clientHandshake == UnmarshalClientHandshake(pkg.data)
             serverProtoVersion == IF c.protoSchema # NilSchema THEN c.protoSchema.Version ELSE 0
         IN  IF ~clientHandshake.err
                /\ versionMatched(clientHandshake.ProtoVersion, serverProtoVersion)
             THEN c.handshakeBytesNoProtos
             ELSE c.handshakeBytes
    ELSE c.handshakeBytes

\* handshakeCommand giving up, without an answer, on a payload it cannot parse
handshakeCommandStrict(c, agent, pkg) ==
    IF pkg # NilPacket /\ pkg.data.kind # "empty" /\ UnmarshalClientHandshake(pkg.data).err
    THEN [agent |-> SetState(agent, AgentWaitAck), calls |-> << >>, cmd |-> c]
    ELSE [agent |-> SendRaw(SetState(agent, AgentWaitAck), handshakeResponse(c, pkg)),
          calls |-> << >>, cmd |-> c]

\* handshakeCommand keeping the buffer it answered with as the full payload
handshakeCommandCaching(c, agent, pkg) ==
    [agent |-> SendRaw(SetState(agent, AgentWaitAck), handshakeResponse(c, pkg)),
     calls |-> << >>,
     cmd |-> [c EXCEPT !.handshakeBytes = handshakeResponse(c, pkg)]]

\* every handler yields the agent after the call, the calls it made to
\* cmd.onDataRouteFunc, and the package variable cmd as it leaves it
\* handshakeCommand answering a Working connection without leaving Working
handshakeCommandOnce(c, agent, pkg) ==
    [agent |-> SendRaw(IF agent.state = AgentWorking THEN agent ELSE SetState(agent, AgentWaitAck),
                       handshakeResponse(c, pkg)),
     calls |-> << >>, cmd |-> c]

handshakeCommand(c, agent, pkg) ==
    [agent |-> SendRaw(SetState(agent, AgentWaitAck), handshakeResponse(c, pkg)),
     calls |-> << >>, cmd |-> c]

\* handshakeACKCommand answering the acknowledgement with the lean payload
handshakeACKCommandReplying(c, agent, pkg) ==
    [agent |-> SendRaw(SetState(agent, AgentWorking), c.handshakeBytesNoProtos),
     calls |-> << >>, cmd |-> c]

handshakeACKCommand(c, agent, pkg) ==
    [agent |-> SetState(agent, AgentWorking), calls |-> << >>, cmd |-> c]

\* heartbeatCommand taking the connection back to WaitAck
heartbeatCommandResetting(c, agent, pkg) ==
    [agent |-> SendRaw(SetState(agent, AgentWaitAck), c.heartbeatBytes),
     calls |-> << >>, cmd |-> c]

heartbeatCommand(c, agent, pkg) ==
    [agent |-> SendRaw(agent, c.heartbeatBytes), calls |-> << >>, cmd |-> c]

\* dataCommand calling the route function although the route did not decode
dataCommandAnyRoute(c, agent, pkg) ==
    IF agent.state # AgentWorking THEN [agent |-> agent, calls |-> << >>, cmd |-> c]
    ELSE IF ~pkg.data.envelopeOk THEN [agent |-> agent, calls |-> << >>, cmd |-> c]
    ELSE [agent |-> agent, calls |-> <<[route |-> pkg.data.route, msg |-> pkg.data.msg]>>, cmd |-> c]

\* dataCommand without the test of the agent's state
dataCommandUngated(c, agent, pkg) ==
    IF ~pkg.data.envelopeOk THEN [agent |-> agent, calls |-> << >>, cmd |-> c]
    ELSE IF ~pkg.data.routeOk THEN [agent |-> agent, calls |-> << >>, cmd |-> c]
    ELSE [agent |-> agent, calls |-> <<[route |-> pkg.data.route, msg |-> pkg.data.msg]>>, cmd |-> c]

\* pmessage.Decode(pkg.Data()) and pmessage.DecodeRoute(msg.Route): the
\* packet body is kept as what the two decoders make of it
dataCommand(c, agent, pkg) ==
    IF agent.state # AgentWorking THEN [agent |-> agent, calls |-> << >>, cmd |-> c]
    ELSE IF ~pkg.data.envelopeOk THEN [agent |-> agent, calls |-> << >>, cmd |-> c]
    ELSE IF ~pkg.data.routeOk THEN [agent |-> agent, calls |-> << >>, cmd |-> c]
    ELSE [agent |-> agent, calls |-> <<[route |-> pkg.data.route, msg |-> pkg.data.msg]>>, cmd |-> c]

\* a PacketFunc of the host application, which here handles a packet by
\* leaving the agent and cmd alone
HostFunc == "hostFunc"

hostCommand(c, agent, pkg) == [agent |-> agent, calls |-> << >>, cmd |-> c]

\* the handler of the table applied to a packet
CallPacketFunc(name, c, agent, pkg) ==
    CASE name = "handshakeCommand" -> handshakeCommand(c, agent, pkg)
      [] name = "handshakeACKCommand" -> handshakeACKCommand(c, agent, pkg)
      [] name = "heartbeatCommand" -> heartbeatCommand(c, agent, pkg)
      [] name = "dataCommand" -> dataCommand(c, agent, pkg)
      [] name = HostFunc -> hostCommand(c, agent, pkg)

-----------------------------------------------------------------------------
(* Session command layer: inputs and specification *)

MaxConfigCalls == 2   \* SetProtoOptions and SetProtos calls by the host
MaxInits == 1         \* calls of Command.init
MaxPackets == 2       \* packets handled, over all connections
MaxSequence == 5      \* packets handled, over all connections, under SpecSequence

Conns == {"c1", "c2"}

\* the application: heartbeat seconds, route dictionary, serializer name
App == [heartbeat |-> 60, dict |-> ("onMsg" :> 1), serializer |-> "json"]

SessionDisk ==
    [files |->
        "a.proto" :> [lines |-> <<MessageLine("A", TRUE),
                                  FieldLine(FALSE, <<"string">>, "x", 1, 0),
                                  OtherLine(0, 1)>>, scanErr |-> FALSE]
        @@ "loop.proto" :> [lines |-> <<MessageLine("A", TRUE),
                                        FieldLine(FALSE, <<"A">>, "a", 1, 0),
                                        OtherLine(0, 1)>>, scanErr |-> FALSE],
     walk |-> [err |-> FALSE, paths |-> << >>]]

SessionOptions(files, version) ==
    [ProtoFiles |-> files, ProtoDir |-> "", Version |-> version, GlobalMessages |-> FALSE,
     ServerRoutes |-> ("r1" :> "A"), ClientRoutes |-> EmptyMap]

\* no proto configured; a.proto with a content version and with version 7;
\* a file that cannot be read; a self-referencing message
SessionOptionChoices ==
    { SessionOptions(<< >>, 1),
      SessionOptions(<<"a.proto">>, 0),
      SessionOptions(<<"a.proto">>, 7),
      SessionOptions(<<"missing.proto">>, 7),
      SessionOptions(<<"loop.proto">>, 7) }

\* schemas the host hands to SetProtos
SchemaChoices ==
    { [Version |-> 7, Server |-> ("r1" :> ("optional string x" :> 1)),
       Client |-> EmptyMap, Messages |-> EmptyMap],
      [Version |-> 8, Server |-> ("r1" :> ("optional int32 y" :> 2)),
       Client |-> EmptyMap, Messages |-> EmptyMap],
      [Version |-> -1, Server |-> ("r1" :> ("optional bool b" :> 3)),
       Client |-> EmptyMap, Messages |-> EmptyMap] }

\* a schema of the host with a route whose value jsoniter cannot marshal
UnmarshalableSchema ==
    [Version |-> 9, Server |-> ("r1" :> Unmarshalable),
     Client |-> EmptyMap, Messages |-> EmptyMap]

\* the host's schemas of a session that also serves every kind of packet
ServedSchemaChoices == { s \in SchemaChoices : s.Version \in {7, 8} }

\* the version Parse computes for a.proto when none is configured
AutoVersion ==
    Parse(NewParser(SessionOptions(<<"a.proto">>, 0)), SessionDisk,
          [visit |-> 0, tie |-> "source"]).out.schema.Version

ClientVersions == {-1, 0, 7, 8, AutoVersion}

HandshakeData ==
    { [kind |-> "empty"], [kind |-> "garbage"],
      [kind |-> "json", pv |-> [t |-> "absent"]],
      [kind |-> "json", pv |-> [t |-> "string"]] }
    \cup { [kind |-> "json", pv |-> [t |-> "int", v |-> v]] : v \in ClientVersions }

HandshakePackets == {NilPacket} \cup { [data |-> d] : d \in HandshakeData }

DataPackets ==
    { [data |-> [envelopeOk |-> FALSE, routeOk |-> FALSE, route |-> "", msg |-> ""]],
      [data |-> [envelopeOk |-> TRUE, routeOk |-> FALSE, route |-> "", msg |-> "m1"]],
      [data |-> [envelopeOk |-> TRUE, routeOk |-> TRUE, route |-> "r1", msg |-> "m1"]] }

\* the packets of a type that a connection may receive
PacketsOf(type) ==
    IF type = Handshake THEN HandshakePackets
    ELSE IF type = Data THEN DataPackets
    ELSE {[data |-> [kind |-> "empty"]]}

-----------------------------------------------------------------------------
(* Specifications *)

NoSession ==
    /\ cmd = NewCommand
    /\ agents = [c \in Conns |-> [state |-> AgentInit, sent |-> << >>]]
    /\ dispatched = << >>
    /\ alive = TRUE
    /\ inits = 0
    /\ configs = 0
    /\ packets = 0
    /\ lastPacket = NoPacket

NoParse == /\ disk = << >> /\ fileIdx = 0 /\ lineIdx = 0 /\ scan = NewScan /\ failed = {}

BuildInit ==
    /\ NoSession
    /\ NoParse
    /\ parser \in { [options |-> o, messages |-> RegistryOf(b)] : o \in OptionChoices, b \in Registries }
    /\ built = NotBuilt
    /\ firstBuilt = NotBuilt
    /\ builds = 0

\* schema := p.buildSchema(), under some iteration order.  Each call is a run
\* of the builder on the same registry and options; a run whose goroutine
\* stack overflows ends without a schema.
Build(ord) ==
    /\ builds < MaxBuilds
    /\ built' = buildSchema(parser, ord)
    /\ firstBuilt' = IF builds = 0 THEN built' ELSE firstBuilt
    /\ builds' = builds + 1
    /\ UNCHANGED <<parser, parseVars, sessionVars>>

BuildNext == \E ord \in BuildOrdersOf(parser) : Build(ord)

SpecBuild == BuildInit /\ [][BuildNext]_vars

-----------------------------------------------------------------------------
(* Grammar parser: inputs and specification.  Parse runs file by file and  *)
(* parseFile line by line, so that the registry and the scanner's local    *)
(* state are visible after every line.                                     *)

MaxLines == 3      \* lines of the first source file

LinePool ==
    { MessageLine("A", TRUE),
      MessageLine("A", FALSE),
      OtherLine(1, 0),
      OtherLine(0, 1),
      FieldLine(FALSE, <<"string">>, "x", 1, 0),
      FieldLine(TRUE, <<"B">>, "b", 2, 1),
      MapLine(<<"string">>, <<"int32">>, "m", 5, 0),
      MapLine(<<"pkg", "B">>, <<"pkg", "B">>, "m", 2, 1) }

LineSeqs == UNION { [1..n -> LinePool] : n \in 0..MaxLines }

SecondFile ==
    [lines |-> <<MessageLine("A", TRUE), FieldLine(FALSE, <<"int32">>, "y", 3, 0), OtherLine(0, 1)>>,
     scanErr |-> FALSE]

\* a.proto cannot be opened, or is any file of at most MaxLines lines whose
\* read ends at the end of the file or fails after them; b.proto is absent,
\* cannot be opened or is a file that defines A
FirstFiles == {ReadError} \cup { [lines |-> l, scanErr |-> e] : l \in LineSeqs, e \in BOOLEAN }

DiskChoices ==
    { [files |-> ("a.proto" :> f), walk |-> [err |-> FALSE, paths |-> << >>]] :
          f \in FirstFiles }
    \cup
    { [files |-> ("a.proto" :> f @@ "b.proto" :> g), walk |-> [err |-> FALSE, paths |-> << >>]] :
          f \in FirstFiles, g \in {ReadError, SecondFile} }

ParseOptions(fs) ==
    [ProtoFiles |-> IF "b.proto" \in DOMAIN fs.files THEN <<"a.proto", "b.proto">> ELSE <<"a.proto">>,
     ProtoDir |-> "", Version |-> 1, GlobalMessages |-> FALSE,
     ServerRoutes |-> ("r1" :> "A"), ClientRoutes |-> EmptyMap]

ParseFilesOf == getProtoFiles(parser.options, disk).files

ParseInit ==
    /\ NoSession
    /\ disk \in DiskChoices
    /\ parser = NewParser(ParseOptions(disk))
    /\ fileIdx = 1
    /\ lineIdx = 0
    /\ scan = NewScan
    /\ failed = {}
    /\ built = NotBuilt
    /\ firstBuilt = NotBuilt
    /\ builds = 0

Parsing == builds = 0 /\ fileIdx >= 1 /\ fileIdx <= Len(ParseFilesOf)

CurrentFile == OpenFile(disk, ParseFilesOf[fileIdx])

\* os.Open fails: parseFile returns the error, Parse logs it and goes on
OpenFails ==
    /\ Parsing /\ lineIdx = 0
    /\ CurrentFile = ReadError
    /\ failed' = failed \cup {fileIdx}
    /\ fileIdx' = fileIdx + 1
    /\ UNCHANGED <<buildVars, disk, lineIdx, scan, sessionVars>>

\* os.Open succeeds: the scanner starts with fresh local variables
OpenSucceeds ==
    /\ Parsing /\ lineIdx = 0
    /\ CurrentFile # ReadError
    /\ scan' = NewScan
    /\ lineIdx' = 1
    /\ UNCHANGED <<buildVars, disk, fileIdx, failed, sessionVars>>

\* one iteration of for scanner.Scan()
ScanLine ==
    /\ Parsing /\ lineIdx >= 1
    /\ CurrentFile # ReadError
    /\ lineIdx <= Len(CurrentFile.lines)
    /\ \E r \in { parseLine(parser.messages, scan, CurrentFile.lines[lineIdx]) } :
          /\ parser' = [parser EXCEPT !.messages = r.messages]
          /\ scan' = r.scan
    /\ lineIdx' = lineIdx + 1
    /\ UNCHANGED <<built, firstBuilt, builds, disk, fileIdx, failed, sessionVars>>

\* scanner.Scan() returns false on an error: parseFile returns scanner.Err(),
\* Parse logs it and goes on; what the lines before put in the registry stays
ScanFails ==
    /\ Parsing /\ lineIdx >= 1
    /\ CurrentFile # ReadError
    /\ lineIdx > Len(CurrentFile.lines)
    /\ CurrentFile.scanErr
    /\ failed' = failed \cup {fileIdx}
    /\ fileIdx' = fileIdx + 1
    /\ lineIdx' = 0
    /\ scan' = NewScan
    /\ UNCHANGED <<buildVars, disk, sessionVars>>

\* an end of file that puts the message still open into the registry
EndOfFileFlushing ==
    /\ Parsing /\ lineIdx >= 1
    /\ CurrentFile # ReadError
    /\ lineIdx > Len(CurrentFile.lines)
    /\ ~CurrentFile.scanErr
    /\ parser' = IF scan.inMessage
                 THEN [parser EXCEPT !.messages =
                          MapSet(@, scan.currentMessage.Name, scan.currentMessage)]
                 ELSE parser
    /\ fileIdx' = fileIdx + 1
    /\ lineIdx' = 0
    /\ scan' = NewScan
    /\ UNCHANGED <<built, firstBuilt, builds, disk, failed, sessionVars>>

\* scanner.Scan() returns false: parseFile returns, its local state is gone
EndOfFile ==
    /\ Parsing /\ lineIdx >= 1
    /\ CurrentFile # ReadError
    /\ lineIdx > Len(CurrentFile.lines)
    /\ ~CurrentFile.scanErr
    /\ fileIdx' = fileIdx + 1
    /\ lineIdx' = 0
    /\ scan' = NewScan
    /\ UNCHANGED <<buildVars, disk, failed, sessionVars>>

\* schema := p.buildSchema(); return schema, nil
FinishParse(ord) ==
    /\ builds = 0
    /\ fileIdx > Len(ParseFilesOf)
    /\ built' = buildSchema(parser, ord)
    /\ firstBuilt' = built'
    /\ builds' = 1
    /\ UNCHANGED <<parser, parseVars, sessionVars>>

ParseNext ==
    \/ OpenFails
    \/ OpenSucceeds
    \/ ScanLine
    \/ ScanFails
    \/ EndOfFile
    \/ \E ord \in BuildOrders : FinishParse(ord)

SpecParse == ParseInit /\ [][ParseNext]_vars

SessionInit ==
    /\ NoSession
    /\ NoParse
    /\ parser = NewParser(SessionOptions(<< >>, 1))
    /\ built = NotBuilt
    /\ firstBuilt = NotBuilt
    /\ builds = 0

\* SetProtoOptions(opts)
SetProtoOptions(opts) ==
    /\ alive /\ configs < MaxConfigCalls
    /\ cmd' = [cmd EXCEPT !.protoOptions = opts]
    /\ configs' = configs + 1
    /\ UNCHANGED <<agents, dispatched, alive, inits, packets, lastPacket, buildVars, parseVars>>

\* SetProtos(schema)
SetProtos(schema) ==
    /\ alive /\ configs < MaxConfigCalls
    /\ cmd' = SetProtosOf(cmd, schema)
    /\ configs' = configs + 1
    /\ UNCHANGED <<agents, dispatched, alive, inits, packets, lastPacket, buildVars, parseVars>>

\* parser.Parse() on the session's disk, for each configuration and iteration order
SessionParses ==
    [t \in SessionOptionChoices \X BuildOrders |-> Parse(NewParser(t[1]), SessionDisk, t[2])]
    @@ << >>

\* parser.Parse() as parseAndSetProtos calls it (not called without options)
ParsedBy(c, ord) ==
    IF c.protoOptions = NilOptions
    THEN Parse(NewParser(SessionOptions(<< >>, 1)), SessionDisk, ord)
    ELSE SessionParses[<<c.protoOptions, ord>>]

\* cmd.init(app); a stack overflow inside Parse ends the process
CallInit(ord, enc) ==
    /\ alive /\ inits < MaxInits
    /\ \E parsed \in { ParsedBy(cmd, ord) } :
          IF parsed.out.crashed
          THEN alive' = FALSE /\ cmd' = cmd
          ELSE alive' = TRUE /\ cmd' = cmdInit(cmd, App, parsed, enc)
    /\ inits' = inits + 1
    /\ UNCHANGED <<agents, dispatched, configs, packets, lastPacket, buildVars, parseVars>>

\* the connection hands a received packet to the handler of its type
HandlePacket(conn, type, pkg) ==
    /\ alive
    /\ type \in DOMAIN cmd.onPacketFuncMap
    /\ \E r \in { CallPacketFunc(cmd.onPacketFuncMap[type], cmd, agents[conn], pkg) } :
          /\ agents' = [agents EXCEPT ![conn] = r.agent]
          /\ dispatched' = dispatched \o [i \in 1..Len(r.calls) |->
                               [agent |-> conn, route |-> r.calls[i].route, msg |-> r.calls[i].msg]]
          /\ cmd' = r.cmd
    /\ packets' = packets + 1
    /\ lastPacket' = [conn |-> conn, type |-> type, pkg |-> pkg]
    /\ UNCHANGED <<alive, inits, configs, buildVars, parseVars>>

OnPacket(conn, type, pkg) ==
    /\ packets < MaxPackets
    /\ HandlePacket(conn, type, pkg)

SessionNext ==
    \/ \E opts \in SessionOptionChoices : SetProtoOptions(opts)
    \/ \E schema \in ServedSchemaChoices \cup {NilSchema} : SetProtos(schema)
    \/ \E ord \in BuildOrders, enc \in {EncodeOk} : CallInit(ord, enc)
    \/ \E conn \in Conns, type \in PacketTypes : \E pkg \in PacketsOf(type) : OnPacket(conn, type, pkg)

Spec == SessionInit /\ [][SessionNext]_vars

\* the host registers its own PacketFunc for a packet type, before init
SetOnPacketFunc(type) ==
    /\ alive /\ inits = 0 /\ configs < MaxConfigCalls
    /\ cmd' = [cmd EXCEPT !.onPacketFuncMap = MapSet(@, type, HostFunc)]
    /\ configs' = configs + 1
    /\ UNCHANGED <<agents, dispatched, alive, inits, packets, lastPacket, buildVars, parseVars>>

\* the session of a host that registers handlers of its own
TableNext ==
    \/ \E type \in PacketTypes : SetOnPacketFunc(type)
    \/ \E ord \in BuildOrders, enc \in {EncodeOk, EncodeFailing} : CallInit(ord, enc)
    \/ \E conn \in Conns, type \in PacketTypes : \E pkg \in PacketsOf(type) : OnPacket(conn, type, pkg)

SpecTable == SessionInit /\ [][TableNext]_vars

\* a packet of a longer sequence, in a session whose configuration is left alone
OnPacketInSequence(conn, type, pkg) ==
    /\ packets < MaxSequence
    /\ HandlePacket(conn, type, pkg)

SequenceNext ==
    \/ \E ord \in BuildOrders, enc \in {EncodeOk, EncodeFailing} : CallInit(ord, enc)
    \/ \E conn \in Conns, type \in PacketTypes : \E pkg \in PacketsOf(type) :
          OnPacketInSequence(conn, type, pkg)

SpecSequence == SessionInit /\ [][SequenceNext]_vars

\* the configuration of a session, up to and including init: what init builds
\* depends on these steps alone, no handler writes to cmd
ConfigNext ==
    \/ \E opts \in SessionOptionChoices : SetProtoOptions(opts)
    \/ \E schema \in SchemaChoices \cup {UnmarshalableSchema, NilSchema} : SetProtos(schema)
    \/ \E ord \in BuildOrders, enc \in HandshakeEncodeOutcomes : CallInit(ord, enc)

SpecConfig == SessionInit /\ [][ConfigNext]_vars

\* a client opens the session, or opens it again
OnHandshake(conn, pkg) ==
    /\ packets < MaxPackets
    /\ HandlePacket(conn, Handshake, pkg)

\* the client acknowledges the server's answer
OnHandshakeAck(conn) ==
    /\ packets < MaxPackets
    /\ \E pkg \in PacketsOf(HandshakeAck) : HandlePacket(conn, HandshakeAck, pkg)

\* the configuration of a session, init, and the handshakes of its clients
HandshakeNext ==
    \/ \E opts \in SessionOptionChoices : SetProtoOptions(opts)
    \/ \E schema \in SchemaChoices \cup {NilSchema} : SetProtos(schema)
    \/ \E ord \in BuildOrders, enc \in HandshakeEncodeOutcomes : CallInit(ord, enc)
    \/ \E pkg \in PacketsOf(Handshake) : OnHandshake("c1", pkg)
    \/ OnHandshakeAck("c1")

SpecHandshake == SessionInit /\ [][HandshakeNext]_vars

-----------------------------------------------------------------------------
(* Properties of the schema builder, under SpecBuild *)

\* the registered names that the message-typed fields of message n refer to
Refs(p, n) ==
    { p.messages[n].Fields[i].TypeName :
        i \in { j \in 1..Len(p.messages[n].Fields) : p.messages[n].Fields[j].Type = TypeMessage } }
    \cap DOMAIN p.messages

RECURSIVE Closure(_, _)
Closure(p, S) ==
    LET T == S \cup UNION { Refs(p, n) : n \in S }
    IN  IF T = S THEN S ELSE Closure(p, T)

\* the registered messages reachable from message n through one field or more
ReachableFrom(p, n) == Closure(p, Refs(p, n))

\* d holds exactly the field keys of msg, each under a tag that msg gives it
ListsFieldsOf(d, msg) ==
    /\ DOMAIN d = { buildFieldKey(msg.Fields[i]) : i \in 1..Len(msg.Fields) }
    /\ \A k \in DOMAIN d :
          \E i \in 1..Len(msg.Fields) : buildFieldKey(msg.Fields[i]) = k /\ d[k] = msg.Fields[i].Tag

\* rs is the route schema the claim describes for message n
RouteSchemaOf(p, rs, n) ==
    LET nested == ReachableFrom(p, n)
    IN  /\ ListsFieldsOf(MapDelete(rs, MessagesKey), p.messages[n])
        /\ IF nested = {} THEN MessagesKey \notin DOMAIN rs
           ELSE /\ MessagesKey \in DOMAIN rs
                /\ DOMAIN rs[MessagesKey] = nested
                /\ \A m \in nested : ListsFieldsOf(rs[MessagesKey][m], p.messages[m])

\* every route mapped to a registered message has its route schema in out
RoutesResolved(p, routes, out) ==
    \A route \in DOMAIN routes :
        routes[route] \in DOMAIN p.messages =>
            route \in DOMAIN out /\ RouteSchemaOf(p, out[route], routes[route])

\* no name occurs twice in the sequence vs
VisitedOnce(vs) == \A i, j \in 1..Len(vs) : vs[i] = vs[j] => i = j

\* C5: whatever the registry, cyclic references included, a build terminates
\* (here: does not run out of stack) and the nested-message collection of
\* every route walks each message name at most once.
C5_TerminatesOnCycles ==
    builds > 0 =>
        /\ ~built.crashed
        /\ \A r \in 1..Len(built.visits) : VisitedOnce(built.visits[r])

\* C7: two builds from the same registry and options have the same outcome:
\* the same server, client and messages content and the same version,
\* whichever order the maps were iterated in and the equal tags were sorted in.
C7_DeterministicCompilation ==
    builds >= 2 => built.crashed = firstBuilt.crashed /\ built.schema = firstBuilt.schema

\* two builds that walked the routes in different orders returned a schema
\* of several routes whose version was computed from the content
C7_Witness ==
    /\ builds >= 2
    /\ ~built.crashed
    /\ parser.options.Version = 0
    /\ built.visits # firstBuilt.visits
    /\ Cardinality(DOMAIN built.schema.Server) >= 2
    /\ built.schema.Version > 0

\* C9: with global-message mode off, every route mapped to a registered
\* message A gets a route schema holding A's own field keys under their tags
\* and a nested dictionary with, once each, every registered message
\* reachable from A through message-typed fields; names that are not
\* registered are skipped.
C9_NestedResolution ==
    builds > 0 /\ ~parser.options.GlobalMessages =>
        /\ RoutesResolved(parser, parser.options.ServerRoutes, built.schema.Server)
        /\ RoutesResolved(parser, parser.options.ClientRoutes, built.schema.Client)

\* the same, for the builds that return a schema
NestedResolutionWhenBuilt ==
    builds > 0 /\ ~parser.options.GlobalMessages /\ ~built.crashed =>
        /\ RoutesResolved(parser, parser.options.ServerRoutes, built.schema.Server)
        /\ RoutesResolved(parser, parser.options.ClientRoutes, built.schema.Client)

\* the names in the nested dictionaries of the routes of a route mapping
NestedNames(p, routes) ==
    UNION { ReachableFrom(p, routes[r]) : r \in { q \in DOMAIN routes : routes[q] \in DOMAIN p.messages } }

\* C10: with global-message mode on, the schema a build returns has no
\* __messages__ key under any server or client route, and its top-level
\* messages dictionary has one entry, the message's schema, for exactly the
\* names that are in some route's nested dictionary.
C10_GlobalDedup ==
    builds > 0 /\ ~built.crashed /\ parser.options.GlobalMessages =>
        /\ \A r \in DOMAIN built.schema.Server : MessagesKey \notin DOMAIN built.schema.Server[r]
        /\ \A r \in DOMAIN built.schema.Client : MessagesKey \notin DOMAIN built.schema.Client[r]
        /\ DOMAIN built.schema.Messages =
              NestedNames(parser, parser.options.ServerRoutes)
              \cup NestedNames(parser, parser.options.ClientRoutes)
        /\ \A m \in DOMAIN built.schema.Messages :
              ListsFieldsOf(built.schema.Messages[m], parser.messages[m])

\* a build in global mode returned a schema in which a message referenced
\* from a server route and from a client route is in the top-level dictionary
C10_Witness ==
    /\ builds > 0 /\ ~built.crashed /\ parser.options.GlobalMessages
    /\ \E r1 \in DOMAIN built.schema.Server, r2 \in DOMAIN built.schema.Client :
          \E m \in DOMAIN built.schema.Messages :
              /\ m \in ReachableFrom(parser, parser.options.ServerRoutes[r1])
              /\ m \in ReachableFrom(parser, parser.options.ClientRoutes[r2])

\* the routes of a mapping whose message name is not in the registry
MissingRoutes(p, routes) == { r \in DOMAIN routes : routes[r] \notin DOMAIN p.messages }

\* out has exactly the routes of the mapping whose message is registered
OmitsMissing(p, routes, out) == DOMAIN out = DOMAIN routes \ MissingRoutes(p, routes)

\* some route of the options is mapped to a message that is not registered
HasMissingRoute(p) ==
    MissingRoutes(p, p.options.ServerRoutes) \cup MissingRoutes(p, p.options.ClientRoutes) # {}

\* C11: when a server or client route is mapped to a message name that is
\* not in the registry, the build still returns a schema, the route is not
\* in it, and every route whose message is registered is in it under its
\* own route name.
C11_MissingRoute ==
    builds > 0 /\ HasMissingRoute(parser) =>
        /\ ~built.crashed
        /\ OmitsMissing(parser, parser.options.ServerRoutes, built.schema.Server)
        /\ OmitsMissing(parser, parser.options.ClientRoutes, built.schema.Client)

\* the same, for the builds that return a schema
MissingRouteWhenBuilt ==
    builds > 0 /\ HasMissingRoute(parser) /\ ~built.crashed =>
        /\ OmitsMissing(parser, parser.options.ServerRoutes, built.schema.Server)
        /\ OmitsMissing(parser, parser.options.ClientRoutes, built.schema.Client)

\* s has the fields of the sequence fields, each as often as fields has it
SameFields(s, fields) ==
    /\ Len(s) = Len(fields)
    /\ \A i \in 1..Len(fields) :
          Cardinality({ j \in 1..Len(s) : s[j] = fields[i] })
              = Cardinality({ j \in 1..Len(fields) : fields[j] = fields[i] })

\* the tags along the sequence s never decrease
NonDecreasingTags(s) == \A i, j \in 1..Len(s) : i < j => s[i].Tag <= s[j].Tag

\* d is what writing key -> tag for the fields of s, in the order of s, leaves
WrittenInOrder(d, s) ==
    /\ DOMAIN d = { buildFieldKey(s[i]) : i \in 1..Len(s) }
    /\ \A i \in 1..Len(s) :
          (\A j \in (i + 1)..Len(s) : buildFieldKey(s[j]) # buildFieldKey(s[i]))
              => d[buildFieldKey(s[i])] = s[i].Tag

\* the schema d of message msg was emitted in tag order from all its fields
EmittedInTagOrder(d, msg) ==
    \A tie \in TieOrders :
        \E s \in { sortSlice(msg.Fields, tie) } :
            /\ SameFields(s, msg.Fields)
            /\ NonDecreasingTags(s)
            /\ WrittenInOrder(d, s)

\* the route schemas of out, and the nested message schemas under them, were
\* emitted in tag order
RoutesInTagOrder(p, routes, out) ==
    \A r \in DOMAIN out :
        /\ EmittedInTagOrder(MapDelete(out[r], MessagesKey), p.messages[routes[r]])
        /\ MessagesKey \in DOMAIN out[r] =>
              \A m \in DOMAIN out[r][MessagesKey] :
                  EmittedInTagOrder(out[r][MessagesKey][m], p.messages[m])

\* C12: in a schema that was built, the field keys of every route schema and
\* of every nested message schema were emitted in non-decreasing tag order
\* from the fields of the message, whatever their order in the source, each
\* key written with the tag of its field (so a key written twice keeps the
\* tag written last).
C12_TagOrdering ==
    builds > 0 /\ ~built.crashed =>
        /\ RoutesInTagOrder(parser, parser.options.ServerRoutes, built.schema.Server)
        /\ RoutesInTagOrder(parser, parser.options.ClientRoutes, built.schema.Client)
        /\ \A m \in DOMAIN built.schema.Messages :
              EmittedInTagOrder(built.schema.Messages[m], parser.messages[m])

\* a schema was built for a route whose message declares a field of tag 2
\* before a field of tag 1, and for a nested message that declares the same
\* key under tag 2 and then under tag 1
C12_Witness ==
    /\ builds > 0 /\ ~built.crashed /\ ~parser.options.GlobalMessages
    /\ \E r \in DOMAIN built.schema.Server :
          LET msg == parser.messages[parser.options.ServerRoutes[r]]
          IN  /\ Len(msg.Fields) = 2
              /\ msg.Fields[1].Tag > msg.Fields[2].Tag
              /\ MessagesKey \in DOMAIN built.schema.Server[r]
              /\ \E m \in DOMAIN built.schema.Server[r][MessagesKey] :
                    /\ Len(parser.messages[m].Fields) = 2
                    /\ parser.messages[m].Fields[1].Tag > parser.messages[m].Fields[2].Tag
                    /\ buildFieldKey(parser.messages[m].Fields[1])
                          = buildFieldKey(parser.messages[m].Fields[2])

\* CRC-32 (IEEE) of the JSON of the schema's server, client and messages
ContentChecksum(schema) == ChecksumIEEE(HashJson(schema, 0))

\* a 32-bit value, kept as two 16-bit halves, with its top bit cleared
Masked31(hash) == (hash.hi % 32768) * 65536 + hash.lo

\* C13: the version of a schema that was built is the configured version
\* when that is greater than 0, and otherwise the CRC-32 of the serialized
\* server, client and messages content with the top bit cleared: a number in
\* 0..2^31-1, computed from the schema without reading its version field.
C13_VersionRule ==
    builds > 0 /\ ~built.crashed =>
        IF parser.options.Version > 0
        THEN built.schema.Version = parser.options.Version
        ELSE /\ built.schema.Version = Masked31(ContentChecksum(built.schema))
             /\ built.schema.Version >= 0
             /\ built.schema.Version <= 2147483647

\* a schema with a route was built without a configured version, and the
\* checksum of its content has the top bit set
C13_Witness ==
    /\ builds > 0 /\ ~built.crashed
    /\ parser.options.Version <= 0
    /\ DOMAIN built.schema.Server # {}
    /\ ContentChecksum(built.schema).hi >= 32768
    /\ built.schema.Version = Masked31(ContentChecksum(built.schema))

\* the positions of msg's fields whose field key is key, and the keys that
\* fields of different tags share
PositionsOfKey(msg, key) == { i \in 1..Len(msg.Fields) : buildFieldKey(msg.Fields[i]) = key }

TagsOfKey(msg, key) == { msg.Fields[i].Tag : i \in PositionsOfKey(msg, key) }

DuplicateKeys(msg) ==
    { key \in { buildFieldKey(msg.Fields[i]) : i \in 1..Len(msg.Fields) } :
        Cardinality(TagsOfKey(msg, key)) > 1 }

LastInSource(msg, key) ==
    msg.Fields[CHOOSE i \in PositionsOfKey(msg, key) :
                   \A j \in PositionsOfKey(msg, key) : j <= i].Tag

LargestTag(msg, key) ==
    CHOOSE t \in TagsOfKey(msg, key) : \A u \in TagsOfKey(msg, key) : u <= t

\* every key of a route's message that is shared under different tags is
\* mapped, in the route's schema, to the tag that Winner picks
DuplicateKeysMapTo(routes, out, Winner(_, _)) ==
    \A r \in DOMAIN out :
        \A key \in DuplicateKeys(parser.messages[routes[r]]) :
            /\ Cardinality(PositionsOfKey(parser.messages[routes[r]], key)) > 1
            /\ out[r][key] = Winner(parser.messages[routes[r]], key)

\* C22 Duplicate field keys, as claimed: in every route schema built, a key
\* that two fields of the route's message share under different tags is
\* mapped to the tag of the field that comes last in source order, both
\* fields being in the registry's field list
C22_DuplicateFieldKeys ==
    builds > 0 /\ ~built.crashed =>
        /\ DuplicateKeysMapTo(parser.options.ServerRoutes, built.schema.Server, LastInSource)
        /\ DuplicateKeysMapTo(parser.options.ClientRoutes, built.schema.Client, LastInSource)

\* C22 Duplicate field keys, amended: both fields are in the registry's field
\* list, and the key is mapped to the largest of their tags, the fields being
\* written in tag order whatever their order in the source
C22_LargestTagWins ==
    builds > 0 /\ ~built.crashed =>
        /\ DuplicateKeysMapTo(parser.options.ServerRoutes, built.schema.Server, LargestTag)
        /\ DuplicateKeysMapTo(parser.options.ClientRoutes, built.schema.Client, LargestTag)

\* a schema was built for a route whose message declares one key twice, the
\* larger tag first
C22_Witness ==
    /\ builds > 0 /\ ~built.crashed
    /\ \E r \in DOMAIN built.schema.Server :
          \E key \in DuplicateKeys(parser.messages[parser.options.ServerRoutes[r]]) :
              /\ LastInSource(parser.messages[parser.options.ServerRoutes[r]], key)
                    < LargestTag(parser.messages[parser.options.ServerRoutes[r]], key)
              /\ built.schema.Server[r][key]
                    = LargestTag(parser.messages[parser.options.ServerRoutes[r]], key)

\* the schema of a nested message as its registry entry alone determines it:
\* every field key of the entry, under the largest tag the entry gives it
SchemaOfEntry(msg) ==
    [key \in { buildFieldKey(msg.Fields[i]) : i \in 1..Len(msg.Fields) } |-> LargestTag(msg, key)]

NestedFromRegistry(out) ==
    \A r \in DOMAIN out :
        MessagesKey \in DOMAIN out[r] =>
            \A m \in DOMAIN out[r][MessagesKey] :
                out[r][MessagesKey][m] = SchemaOfEntry(parser.messages[m])

\* C27 No global conflict: in a build that returns, every nested-message
\* schema under a route, and every entry of the global dictionary, is the
\* schema of the registry entry of its name; no conflict warning was logged;
\* and a second build, under another iteration order of the maps, yields the
\* same global dictionary
C27_NoGlobalConflict ==
    builds > 0 /\ ~built.crashed =>
        /\ NestedFromRegistry(built.schema.Server)
        /\ NestedFromRegistry(built.schema.Client)
        /\ \A m \in DOMAIN built.schema.Messages :
              built.schema.Messages[m] = SchemaOfEntry(parser.messages[m])
        /\ built.conflicts = 0
        /\ builds >= 2 => built.schema.Messages = firstBuilt.schema.Messages

\* global-message mode, two builds that walked the routes in different
\* orders, and a message that is nested under a server route directly and
\* under another server route through a second message
C27_Witness ==
    /\ builds >= 2 /\ ~built.crashed /\ parser.options.GlobalMessages
    /\ built.visits # firstBuilt.visits
    /\ \E r1, r2 \in DOMAIN built.schema.Server :
          /\ r1 # r2
          /\ \E m \in DOMAIN built.schema.Messages :
                /\ m \in Refs(parser, parser.options.ServerRoutes[r1])
                /\ m \notin Refs(parser, parser.options.ServerRoutes[r2])
                /\ m \in ReachableFrom(parser, parser.options.ServerRoutes[r2])

\* the conflict-warning branch of collectGlobalMessages was not taken
NoConflictWarning == builds > 0 => built.conflicts = 0

-----------------------------------------------------------------------------
(* Properties of the session command layer, under Spec *)

\* the step handles a packet of the given type
Handles(type) == packets' = packets + 1 /\ lastPacket'.type = type

\* the buffers the step sent on a connection
SentBy(conn) == SubSeq(agents'[conn].sent, Len(agents[conn].sent) + 1, Len(agents'[conn].sent))

\* the client payload parses as a handshake declaration
Parses(pkg) ==
    IF pkg = NilPacket THEN FALSE
    ELSE IF pkg.data.kind # "json" THEN FALSE
    ELSE pkg.data.pv.t \in {"int", "absent"}

\* the protocol version a parsed payload declares, 0 when it declares none
Declared(pkg) == IF pkg.data.pv.t = "int" THEN pkg.data.pv.v ELSE 0

\* the version of the current schema reference, 0 without one
ServerVersion(c) == IF c.protoSchema = NilSchema THEN 0 ELSE c.protoSchema.Version

\* the protos entry of the full handshake payload holds the schema
Embeds(c, schema) ==
    /\ c.handshakeBytes # EmptyBytes
    /\ DataProtos \in DOMAIN c.handshakeBytes.body.sys
    /\ c.handshakeBytes.body.sys[DataProtos] = schema

\* C1: a Data packet handled while the connection is not Working sends
\* nothing, dispatches nothing and leaves the connection's state as it was;
\* a HandshakeAck moves the connection to Working, and a Data packet with a
\* decodable envelope and route handled in Working is dispatched, once, to the
\* route function with its route and message.
C1_StateGating ==
    [][/\ Handles(Data) =>
            LET conn == lastPacket'.conn
                body == lastPacket'.pkg.data
            IN  /\ agents[conn].state # AgentWorking =>
                      /\ SentBy(conn) = << >>
                      /\ dispatched' = dispatched
                      /\ agents'[conn].state = agents[conn].state
                /\ agents[conn].state = AgentWorking /\ body.envelopeOk /\ body.routeOk =>
                      dispatched' = Append(dispatched,
                                           [agent |-> conn, route |-> body.route, msg |-> body.msg])
       /\ Handles(HandshakeAck) => agents'[lastPacket'.conn].state = AgentWorking
      ]_vars

\* a HandshakeAck and then a decodable Data packet on one connection, which
\* is Working, has sent nothing, and had the packet dispatched
C1_Witness ==
    /\ packets = 2
    /\ lastPacket.type = Data
    /\ lastPacket.pkg.data.envelopeOk /\ lastPacket.pkg.data.routeOk
    /\ agents[lastPacket.conn] = [state |-> AgentWorking, sent |-> << >>]
    /\ dispatched = <<[agent |-> lastPacket.conn, route |-> lastPacket.pkg.data.route,
                       msg |-> lastPacket.pkg.data.msg]>>

\* C2: whatever the server's schema version v, a Handshake packet is answered
\* with the payload without the schema exactly when the client payload
\* parses, declares a nonzero version, and that version equals v; in every
\* other case it is answered with the full payload.
C2_HandshakeNegotiation ==
    [][Handles(Handshake) =>
          LET conn == lastPacket'.conn
              pkg == lastPacket'.pkg
              lean == IF Parses(pkg)
                      THEN Declared(pkg) # 0 /\ Declared(pkg) = ServerVersion(cmd)
                      ELSE FALSE
          IN  SentBy(conn) = <<IF lean THEN cmd.handshakeBytesNoProtos ELSE cmd.handshakeBytes>>
      ]_vars

\* C2, with the handler's test: a Handshake packet is answered with the
\* payload without the schema exactly when the client payload parses, declares
\* a version greater than zero, and that version equals the server's v; a
\* declared version that is zero, negative (equal to v or not), absent or
\* different from v is answered with the full payload.
C2_PositiveVersionNegotiation ==
    [][Handles(Handshake) =>
          LET conn == lastPacket'.conn
              pkg == lastPacket'.pkg
              lean == IF Parses(pkg)
                      THEN Declared(pkg) > 0 /\ Declared(pkg) = ServerVersion(cmd)
                      ELSE FALSE
          IN  SentBy(conn) = <<IF lean THEN cmd.handshakeBytesNoProtos ELSE cmd.handshakeBytes>>
      ]_vars

\* a client declaring the server's version was answered without the schema,
\* by a server whose full payload carries one
C2_Witness ==
    /\ lastPacket.type = Handshake
    /\ Parses(lastPacket.pkg)
    /\ Declared(lastPacket.pkg) = ServerVersion(cmd)
    /\ ServerVersion(cmd) # 0
    /\ Embeds(cmd, cmd.protoSchema)
    /\ cmd.handshakeBytesNoProtos # cmd.handshakeBytes
    /\ agents[lastPacket.conn].sent = <<cmd.handshakeBytesNoProtos>>

\* C3: after initialization, the version of the current schema reference,
\* which the Handshake handler compares the client's version with, is the
\* version of the schema in the protos entry of the full handshake payload.
C3_SchemaPayloadConsistency ==
    (inits > 0 /\ alive /\ cmd.protoSchema # NilSchema) =>
        /\ cmd.handshakeBytes # EmptyBytes
        /\ DataProtos \in DOMAIN cmd.handshakeBytes.body.sys
        /\ cmd.handshakeBytes.body.sys[DataProtos].Version = cmd.protoSchema.Version

\* C4: once init has completed, SetProtos(s) with a non-nil schema s makes s
\* the schema reference and makes the full handshake payload carry s.
C4_ReplaceSchemaAfterInit ==
    [][\A s \in SchemaChoices :
          (inits > 0 /\ alive /\ SetProtos(s)) =>
              cmd'.protoSchema = s /\ Embeds(cmd', s)
      ]_vars

\* C6: a Handshake packet, whatever its payload, is answered with exactly one
\* buffer on its connection and with nothing on another, and leaves the
\* process running and the connection waiting for the acknowledgement; when
\* the payload is absent, empty or does not parse, the buffer is the full
\* payload.
C6_HandshakeAlwaysAnswered ==
    [][Handles(Handshake) =>
          LET conn == lastPacket'.conn
          IN  /\ Len(SentBy(conn)) = 1
              /\ \A other \in Conns \ {conn} : agents'[other] = agents[other]
              /\ alive'
              /\ agents'[conn].state = AgentWaitAck
              /\ ~Parses(lastPacket'.pkg) => SentBy(conn) = <<cmd.handshakeBytes>>
      ]_vars

\* a Handshake packet whose payload is not JSON was answered with the full
\* payload, which carries the schema
C6_Witness ==
    /\ lastPacket.type = Handshake
    /\ lastPacket.pkg # NilPacket
    /\ ~Parses(lastPacket.pkg)
    /\ Embeds(cmd, cmd.protoSchema)
    /\ cmd.handshakeBytesNoProtos # cmd.handshakeBytes
    /\ agents[lastPacket.conn] = [state |-> AgentWaitAck, sent |-> <<cmd.handshakeBytes>>]
-----------------------------------------------------------------------------
(* Further properties of the session command layer, under Spec *)

\* C14: a Data packet handled on a connection that is Working calls the
\* route function exactly once, with the connection and the decoded route
\* and message, when the envelope and the route both decode; when either
\* decode fails the route function is not called, nothing is sent on the
\* connection and the connection stays Working.
C14_DataDispatchInWorking ==
    [][(Handles(Data) /\ agents[lastPacket'.conn].state = AgentWorking) =>
          LET conn == lastPacket'.conn
              body == lastPacket'.pkg.data
          IN  IF body.envelopeOk /\ body.routeOk
              THEN /\ Len(dispatched') = Len(dispatched) + 1
                   /\ SubSeq(dispatched', 1, Len(dispatched)) = dispatched
                   /\ dispatched'[Len(dispatched')] =
                         [agent |-> conn, route |-> body.route, msg |-> body.msg]
              ELSE /\ dispatched' = dispatched
                   /\ SentBy(conn) = << >>
                   /\ agents'[conn].state = AgentWorking
      ]_vars

\* a Working connection was handed a Data packet whose envelope decodes and
\* whose route does not: nothing was dispatched or sent, and it is Working
C14_Witness ==
    /\ packets = 2
    /\ lastPacket.type = Data
    /\ lastPacket.pkg.data.envelopeOk /\ ~lastPacket.pkg.data.routeOk
    /\ agents[lastPacket.conn] = [state |-> AgentWorking, sent |-> << >>]
    /\ dispatched = << >>

\* the agents and the package variable after the handler of a packet type
\* ran for a packet of a connection, from the agents and package variable st
AfterHandler(st, conn, type, pkg) ==
    \* r is what the handler yields
    Only({ [agents |-> [st.agents EXCEPT ![conn] = r.agent], cmd |-> r.cmd] :
             r \in { CallPacketFunc(st.cmd.onPacketFuncMap[type], st.cmd, st.agents[conn], pkg) } })

\* the packets a connection may be handed, with their types
TypedPackets == { <<type, pkg>> : type \in {Handshake}, pkg \in HandshakePackets }
                \cup { <<type, pkg>> : type \in {Data}, pkg \in DataPackets }
                \cup { <<type, pkg>> : type \in {HandshakeAck, Heartbeat}, pkg \in PacketsOf(Heartbeat) }

\* C15: a handler invoked for a connection leaves every other connection's
\* state and sent buffers, and the shared schema reference, payload buffers
\* and handler table, as they were, and attributes its route calls to its
\* own connection; and for the first packets of two distinct connections,
\* handling them in either order ends with the same agents and package
\* variable, as handling each alone does.
C15_PerConnectionIsolation ==
    [][(packets' = packets + 1) =>
          /\ cmd' = cmd
          /\ \A other \in Conns \ {lastPacket'.conn} : agents'[other] = agents[other]
          /\ \A i \in (Len(dispatched) + 1)..Len(dispatched') :
                dispatched'[i].agent = lastPacket'.conn
          /\ packets = 0 =>
             \A other \in Conns \ {lastPacket'.conn} :
                \A tp \in TypedPackets :
                    \E st \in { [agents |-> agents, cmd |-> cmd] } :
                        AfterHandler(AfterHandler(st, lastPacket'.conn, lastPacket'.type,
                                                  lastPacket'.pkg), other, tp[1], tp[2])
                          = AfterHandler(AfterHandler(st, other, tp[1], tp[2]),
                                         lastPacket'.conn, lastPacket'.type, lastPacket'.pkg)
      ]_vars

\* both connections had a packet handled, one after the other: one was
\* answered a handshake and the other moved to Working
C15_Witness ==
    /\ packets = 2
    /\ \E a, b \in Conns :
          /\ a # b
          /\ lastPacket.conn = b
          /\ lastPacket.type = HandshakeAck
          /\ agents[a].state = AgentWaitAck /\ Len(agents[a].sent) = 1
          /\ agents[b] = [state |-> AgentWorking, sent |-> << >>]

\* the handler init installs for a packet type that has none
DefaultHandler(type) ==
    CASE type = Handshake -> "handshakeCommand"
      [] type = HandshakeAck -> "handshakeACKCommand"
      [] type = Heartbeat -> "heartbeatCommand"
      [] type = Data -> "dataCommand"

\* C16 (under SpecTable): after init, a packet type for which the host had
\* registered a handler still has that handler, and each of Handshake,
\* HandshakeAck, Heartbeat and Data that had no entry has its default handler.
C16_OverridesSurviveInit ==
    [][(inits' = inits + 1) =>
          /\ DOMAIN cmd'.onPacketFuncMap = PacketTypes
          /\ \A type \in PacketTypes :
                cmd'.onPacketFuncMap[type] =
                    IF type \in DOMAIN cmd.onPacketFuncMap
                    THEN cmd.onPacketFuncMap[type]
                    ELSE DefaultHandler(type)
      ]_vars

\* the host registered a handler for Handshake, init ran, and a Handshake
\* packet was handled by the host's handler: no answer was sent; Data has
\* the default handler
C16_Witness ==
    /\ inits = 1
    /\ cmd.onPacketFuncMap[Handshake] = HostFunc
    /\ cmd.onPacketFuncMap[Data] = "dataCommand"
    /\ lastPacket.type = Handshake
    /\ agents[lastPacket.conn] = [state |-> AgentInit, sent |-> << >>]

\* the connection of the packet handled by this step enters Working
EntersWorking ==
    /\ packets' = packets + 1
    /\ agents[lastPacket'.conn].state # AgentWorking
    /\ agents'[lastPacket'.conn].state = AgentWorking

\* C18 Connection state order: a connection enters Working only from WaitAck:
\* the HandshakeAck that moves it to Working finds it in WaitAck, the state
\* that only a handled Handshake sets, with the handshake response sent to it
C18_ConnectionStateOrder ==
    [][EntersWorking =>
          /\ lastPacket'.type = HandshakeAck
          /\ agents[lastPacket'.conn].state = AgentWaitAck
          /\ agents[lastPacket'.conn].sent # << >>
      ]_vars

\* what the handlers do keep: only a HandshakeAck moves a connection to
\* Working, and WaitAck is the state of a connection whose latest Handshake
\* was answered
WorkingOnlyByHandshakeAck ==
    [][EntersWorking => lastPacket'.type = HandshakeAck]_vars

WaitAckOnlyAfterHandshake ==
    \A conn \in Conns : agents[conn].state = AgentWaitAck => agents[conn].sent # << >>

\* the step handles a packet of another kind than a HandshakeAck on conn
NoHandshakeAckOn(conn) ==
    /\ packets' = packets + 1
    /\ ~(lastPacket'.conn = conn /\ lastPacket'.type = HandshakeAck)

\* the calls of cmd.onDataRouteFunc made by this step
NewCalls == SubSeq(dispatched', Len(dispatched) + 1, Len(dispatched'))

\* C19 Handshake from any state: handling a Handshake leaves the connection
\* in WaitAck whatever its state was, Working included; and from then until a
\* HandshakeAck is handled on that connection it stays in WaitAck, no call of
\* the route function is made for it, and a Data packet on it changes nothing
C19_HandshakeFromAnyState ==
    [][/\ Handles(Handshake) => agents'[lastPacket'.conn].state = AgentWaitAck
       /\ \A conn \in Conns :
             agents[conn].state = AgentWaitAck /\ NoHandshakeAckOn(conn)
             => /\ agents'[conn].state = AgentWaitAck
                /\ \A i \in 1..Len(NewCalls) : NewCalls[i].agent # conn
                /\ lastPacket'.conn = conn /\ lastPacket'.type = Data
                   => agents'[conn] = agents[conn] /\ dispatched' = dispatched
      ]_vars

\* connection c1 was acknowledged and had a Data packet dispatched, then sent a
\* Handshake, which was answered, and then a Data packet with a good route:
\* c1 is in WaitAck and the second Data packet made no call
C19_Witness ==
    /\ packets = 4
    /\ lastPacket.conn = "c1" /\ lastPacket.type = Data
    /\ lastPacket.pkg.data.envelopeOk /\ lastPacket.pkg.data.routeOk
    /\ agents["c1"].state = AgentWaitAck
    /\ Len(agents["c1"].sent) = 1
    /\ Len(dispatched) = 1 /\ dispatched[1].agent = "c1"

\* the two payloads as setHandshakeBytes leaves them: the same packet type,
\* the same code, and the second's sys entries are the first's without protos
LeanOfFull(c) ==
    /\ c.handshakeBytes # EmptyBytes /\ c.handshakeBytesNoProtos # EmptyBytes
    /\ c.handshakeBytesNoProtos.ptype = c.handshakeBytes.ptype
    /\ c.handshakeBytes.ptype = Handshake
    /\ c.handshakeBytesNoProtos.body.code = c.handshakeBytes.body.code
    /\ {DataHeartbeat, DataDict, DataSerializer} \subseteq DOMAIN c.handshakeBytesNoProtos.body.sys
    /\ c.handshakeBytesNoProtos.body.sys = MapDelete(c.handshakeBytes.body.sys, DataProtos)

\* the lengths of the byte strings that jsoniter.Marshal can return for doc
MarshalledLengths(doc) == { Len(bytes) : bytes \in MarshalHandshakeData(doc) }

\* the second payload is shorter in bytes than the first, in whatever orders
\* the maps of the two were iterated
LeanIsShorter(c) ==
    \A lean \in MarshalledLengths(c.handshakeBytesNoProtos.body) :
        \A full \in MarshalledLengths(c.handshakeBytes.body) : lean < full

PayloadsChange ==
    \/ cmd'.handshakeBytes # cmd.handshakeBytes
    \/ cmd'.handshakeBytesNoProtos # cmd.handshakeBytesNoProtos

\* C23 Lean payload content: an init that returns leaves the lean payload as
\* the full one without the protos entry (same frame type, code, heartbeat,
\* dict and serializer), both written by that one step; if a schema is loaded
\* when it returns, the full payload has the protos entry and the lean one
\* is strictly shorter in bytes, however the encoder ordered the keys of either
C23_LeanPayloadContent ==
    [][(inits' = inits + 1 /\ alive')
          => /\ LeanOfFull(cmd')
             /\ cmd'.protoSchema # NilSchema
                => /\ DataProtos \in DOMAIN cmd'.handshakeBytes.body.sys
                   /\ LeanIsShorter(cmd')
      ]_vars

\* every Marshal and Encode call that setHandshakeBytes makes on c succeeds
HandshakeEncoded(c, enc) ==
    /\ ~MarshalError([code |-> 200, sys |-> c.sysData])
    /\ enc.handshake /\ enc.handshakeNoProtos

\* what setHandshakeBytes leaves when a call fails: a failure on the full
\* payload (Marshal, or Encode, whose empty result is assigned) leaves the
\* second payload as it was; a failure on the second leaves it empty beside
\* the full payload
HandshakeReturnedEarly(before, after, enc) ==
    IF MarshalError([code |-> 200, sys |-> after.sysData])
    THEN /\ after.handshakeBytes = before.handshakeBytes
         /\ after.handshakeBytesNoProtos = before.handshakeBytesNoProtos
    ELSE IF ~enc.handshake
    THEN /\ after.handshakeBytes = EmptyBytes
         /\ after.handshakeBytesNoProtos = before.handshakeBytesNoProtos
    ELSE /\ after.handshakeBytes # EmptyBytes
         /\ after.handshakeBytes.body.sys = after.sysData
         /\ after.handshakeBytesNoProtos = EmptyBytes

\* C23, for an init whose calls succeed: an init that returns, and in which
\* every Marshal and Encode call of setHandshakeBytes succeeded, leaves the
\* lean payload as the full one without the protos entry (same frame type,
\* code, heartbeat, dict and serializer), both written by that one step; if a
\* schema is loaded when it returns, the full payload has the protos entry and
\* the lean one is strictly shorter in bytes, however the encoder ordered the
\* keys of either. An init in which one of the calls failed leaves what
\* setHandshakeBytes had written when it returned there.
C23_LeanPayloadWhenEncoded ==
    [][(inits' = inits + 1 /\ alive') =>
          LET encs == { enc \in EncodeOutcomes : \E ord \in BuildOrders : CallInit(ord, enc) }
          IN  /\ \A enc \in encs :
                    ~HandshakeEncoded(cmd', enc) => HandshakeReturnedEarly(cmd, cmd', enc)
              /\ (\E enc \in encs : HandshakeEncoded(cmd', enc)) =>
                    /\ LeanOfFull(cmd')
                    /\ cmd'.protoSchema # NilSchema
                       => /\ DataProtos \in DOMAIN cmd'.handshakeBytes.body.sys
                          /\ LeanIsShorter(cmd')
      ]_vars

\* no step other than init changes either payload
PayloadsOnlyFromInit == [][PayloadsChange => inits' = inits + 1]_vars

\* init has loaded the schema of a.proto, and the lean payload is shorter
C23_Witness ==
    /\ inits = 1 /\ alive /\ configs = 1 /\ packets = 0
    /\ cmd.protoOptions # NilOptions
    /\ cmd.protoSchema # NilSchema
    /\ DOMAIN cmd.protoSchema.Server = {"r1"}
    /\ cmd.handshakeBytes # EmptyBytes /\ cmd.handshakeBytesNoProtos # EmptyBytes
    /\ cmd.handshakeBytes.body.sys[DataProtos] = cmd.protoSchema
    /\ DataProtos \notin DOMAIN cmd.handshakeBytesNoProtos.body.sys
    /\ LeanIsShorter(cmd)

\* C24 HandshakeAck effect: handling a HandshakeAck leaves the packet's
\* connection in Working, whatever its state was, and passes nothing to
\* SendRaw on it; the other connection, the route function's calls and cmd
\* are untouched
C24_HandshakeAckEffect ==
    [][Handles(HandshakeAck) =>
          /\ agents'[lastPacket'.conn].state = AgentWorking
          /\ agents'[lastPacket'.conn].sent = agents[lastPacket'.conn].sent
          /\ \A other \in Conns \ {lastPacket'.conn} : agents'[other] = agents[other]
          /\ dispatched' = dispatched
          /\ cmd' = cmd
      ]_vars

\* c1 was answered a Handshake and then acknowledged it: it is Working and
\* the handshake response is all that was sent to it
C24_Witness ==
    /\ packets = 2
    /\ lastPacket.conn = "c1" /\ lastPacket.type = HandshakeAck
    /\ agents["c1"] = [state |-> AgentWorking, sent |-> <<cmd.handshakeBytes>>]
    /\ cmd.handshakeBytes # cmd.heartbeatBytes

\* C25 Heartbeat effect: handling a Heartbeat passes the precomputed
\* heartbeat payload, the frame of an empty Heartbeat packet, to SendRaw
\* exactly once on the packet's connection and leaves its state as it was,
\* whichever of Init, WaitAck and Working it is; nothing else changes
C25_HeartbeatEffect ==
    [][Handles(Heartbeat) =>
          /\ SentBy(lastPacket'.conn) = <<cmd.heartbeatBytes>>
          /\ cmd.heartbeatBytes = Encode(Heartbeat, EmptyBytes, TRUE).bytes
          /\ agents'[lastPacket'.conn].state = agents[lastPacket'.conn].state
          /\ \A other \in Conns \ {lastPacket'.conn} : agents'[other] = agents[other]
          /\ dispatched' = dispatched
          /\ cmd' = cmd
      ]_vars

\* C25, with the payload init may have failed to frame: handling a
\* Heartbeat passes the stored heartbeat payload to SendRaw exactly once on the
\* packet's connection and leaves its state as it was, whichever of Init,
\* WaitAck and Working it is; nothing else changes. The stored payload is the
\* frame of an empty Heartbeat packet once an init has framed it, and the
\* empty buffer until then: only an init writes it, and an init whose Encode
\* fails leaves it as it was
C25_HeartbeatSendsStoredPayload ==
    [][/\ Handles(Heartbeat) =>
             /\ SentBy(lastPacket'.conn) = <<cmd.heartbeatBytes>>
             /\ cmd.heartbeatBytes \in {EmptyBytes, Encode(Heartbeat, EmptyBytes, TRUE).bytes}
             /\ agents'[lastPacket'.conn].state = agents[lastPacket'.conn].state
             /\ \A other \in Conns \ {lastPacket'.conn} : agents'[other] = agents[other]
             /\ dispatched' = dispatched
             /\ cmd' = cmd
       /\ (inits' = inits + 1 /\ alive') =>
             \E enc \in EncodeOutcomes :
                 cmd'.heartbeatBytes = IF enc.heartbeat
                                       THEN Encode(Heartbeat, EmptyBytes, TRUE).bytes
                                       ELSE cmd.heartbeatBytes
       /\ inits' = inits => cmd'.heartbeatBytes = cmd.heartbeatBytes
      ]_vars

\* c1 sent a Heartbeat in Init, one in WaitAck and one in Working, and the
\* heartbeat payload came back each time
C25_Witness ==
    /\ packets = 5
    /\ lastPacket.conn = "c1" /\ lastPacket.type = Heartbeat
    /\ agents["c1"].state = AgentWorking
    /\ Len(agents["c1"].sent) = 4
    /\ cmd.heartbeatBytes = Encode(Heartbeat, EmptyBytes, TRUE).bytes
    /\ agents["c1"].sent[1] = cmd.heartbeatBytes
    /\ agents["c1"].sent[2] # cmd.heartbeatBytes
    /\ agents["c1"].sent[3] = cmd.heartbeatBytes
    /\ agents["c1"].sent[4] = cmd.heartbeatBytes
    /\ agents["c2"] = [state |-> AgentInit, sent |-> << >>]

-----------------------------------------------------------------------------
(* Properties of the grammar parser, under SpecParse *)

\* the scanner, inside message M, reads a map line
ScansMapLine ==
    /\ ScanLine
    /\ CurrentFile.lines[lineIdx].kind = "map"
    /\ scan.inMessage /\ scan.currentMessage # NilMessage

\* the canonical type of a map's key type K and of a scalar value type V
CanonicalKey(K) == IF K \in DOMAIN protoTypeMapping THEN protoTypeMapping[K] ELSE TypeString
CanonicalValue(V) == IF V \in DOMAIN protoTypeMapping THEN protoTypeMapping[V] ELSE TypeMessage

\* after the step, M has as its last field the desugared field of the line
\* and the registry has the entry message of the line's K and V
Desugared(M, line) ==
    LET owner == IF scan'.inMessage THEN scan'.currentMessage ELSE parser'.messages[M]
        entryName == EntryName(M, line.name)
        K == normalizeTypeName(line.keyType)
        V == normalizeTypeName(line.valueType)
    IN  /\ Len(owner.Fields) = Len(scan.currentMessage.Fields) + 1
        /\ owner.Fields[Len(owner.Fields)] =
              [Name |-> line.name, Type |-> TypeMessage, Tag |-> line.tag, Repeated |-> TRUE,
               TypeName |-> entryName]
        /\ entryName \in DOMAIN parser'.messages
        /\ parser'.messages[entryName].Name = entryName
        /\ parser'.messages[entryName].Fields =
              << [Name |-> "key", Type |-> CanonicalKey(K), Tag |-> 1, Repeated |-> FALSE,
                  TypeName |-> ""],
                 [Name |-> "value", Type |-> CanonicalValue(V), Tag |-> 2, Repeated |-> FALSE,
                  TypeName |-> IF V \in DOMAIN protoTypeMapping THEN "" ELSE V] >>

\* C8: a field map<K,V> name = t inside message M adds to M the field
\* (name, tag t, repeated, message, M_nameEntry) and leaves in the registry
\* the message M_nameEntry with exactly the fields key (tag 1, canonical type
\* of K, string when K is no supported scalar) and value (tag 2, canonical
\* type of V, or message V), both not repeated.
C8_MapDesugaring ==
    [][ScansMapLine => Desugared(scan.currentMessage.Name, CurrentFile.lines[lineIdx])]_vars

\* the same, for a map field whose entry name is not yet in the registry
MapDesugaringOfNewEntry ==
    [][(/\ ScansMapLine
        /\ EntryName(scan.currentMessage.Name, CurrentFile.lines[lineIdx].name)
              \notin DOMAIN parser.messages)
       => Desugared(scan.currentMessage.Name, CurrentFile.lines[lineIdx])]_vars

\* the files of the run that Parse could not read: os.Open failed, or the
\* scanner stopped on an error
CannotRead(file) == file = ReadError \/ file.scanErr

Unreadable == { i \in 1..Len(ParseFilesOf) : CannotRead(OpenFile(disk, ParseFilesOf[i])) }

\* the registry that the other files alone produce
RegistryOfOthers ==
    parseFiles(NewParser(parser.options).messages,
               [disk EXCEPT !.files = [path \in DOMAIN disk.files |->
                                          IF CannotRead(disk.files[path]) THEN ReadError
                                          ELSE disk.files[path]]],
               ParseFilesOf, 1, {}).messages

SkipsUnreadable ==
    /\ failed = Unreadable
    /\ parser.messages = RegistryOfOthers
    /\ ~built.crashed
    /\ \E ord \in BuildOrders :
          built = buildSchema([parser EXCEPT !.messages = RegistryOfOthers], ord)

\* C17 Per-file I/O failure: when Parse has returned and reading one of the
\* source files failed, parseFile returned the error for exactly that file,
\* the registry is the one the other files alone produce, and the schema
\* returned is built from it
C17_PerFileIOFailure == builds = 1 /\ Unreadable # {} => SkipsUnreadable

\* the same, for runs in which every failure is a failure of os.Open
OpenFailureSkipsFile ==
    builds = 1 /\ Unreadable # {}
       /\ (\A i \in Unreadable : OpenFile(disk, ParseFilesOf[i]) = ReadError)
    => SkipsUnreadable

\* whatever the failure, it is returned for that file and a schema is built
FailureReturnedAndSchemaBuilt ==
    builds = 1 => failed = Unreadable /\ ~built.crashed

\* the source's brace depth after line i of the file being scanned, counted
\* from the message header at line h
RECURSIVE SourceDepth(_, _)
SourceDepth(h, i) ==
    IF i < h THEN 0
    ELSE SourceDepth(h, i - 1) + CurrentFile.lines[i].opens - CurrentFile.lines[i].closes

\* the fields declared on lines h + 1 .. i of the message called name
RECURSIVE DeclaredFields(_, _, _)
DeclaredFields(name, h, i) ==
    IF i <= h THEN << >>
    ELSE LET line == CurrentFile.lines[i]
             before == DeclaredFields(name, h, i - 1)
         IN  IF line.kind = "map" THEN Append(before, mapField(name, line))
             ELSE IF line.kind = "field" THEN Append(before, plainField(line))
             ELSE before

\* the scanner, not inside a message before line h, reads the line that holds
\* the closing brace matching the opening brace of the message headed at h
ScansClosingBrace(h) ==
    /\ ScanLine
    /\ h >= 1 /\ h < lineIdx
    /\ CurrentFile.lines[h].kind = "message"
    /\ \A i \in h + 1 .. lineIdx : CurrentFile.lines[i].kind # "message"
    /\ \A i \in h + 1 .. lineIdx - 1 : SourceDepth(h, i) > 0
    /\ SourceDepth(h, lineIdx) = 0

BraceOnNextLine(h) ==
    CurrentFile.lines[h].opens = 0 /\ CurrentFile.lines[h + 1] = OtherLine(1, 0)

BraceOnHeaderLine(h) == CurrentFile.lines[h].opens = 1

FinalizedAtClosingBrace(h) ==
    LET name == CurrentFile.lines[h].name
    IN  /\ scan'.braceCount = 0
        /\ ~scan'.inMessage
        /\ name \in DOMAIN parser'.messages
        /\ parser'.messages[name].Fields = DeclaredFields(name, h, lineIdx)

\* C20 Message with the brace on the next line: for a header line without a
\* brace whose opening brace stands on the following line, the counter is zero
\* after the line with the matching closing brace, and that line puts the
\* message into the registry with every field declared between the braces
C20_BraceOnNextLine ==
    [][\A h \in 1..MaxLines :
          ScansClosingBrace(h) /\ BraceOnNextLine(h) => FinalizedAtClosingBrace(h)]_vars

\* the same, for a header line that holds the opening brace
BraceOnHeaderLineFinalized ==
    [][\A h \in 1..MaxLines :
          ScansClosingBrace(h) /\ BraceOnHeaderLine(h) => FinalizedAtClosingBrace(h)]_vars

\* the definitions that the line scanned by this step completes: the entry
\* message of a map field, and the open message when the line closes it
ScannedLine == CurrentFile.lines[lineIdx]

InsideMessage ==
    /\ ScanLine
    /\ ScannedLine.kind \notin {"blank", "message"}
    /\ scan.inMessage /\ scan.currentMessage # NilMessage

EntryDefined ==
    IF InsideMessage /\ ScannedLine.kind = "map"
    THEN {mapEntryMessage(scan.currentMessage.Name, ScannedLine)}
    ELSE {}

MessageDefined ==
    IF InsideMessage /\ ~scan'.inMessage
    THEN {ProtoMessage(scan.currentMessage.Name,
                       scan.currentMessage.Fields
                       \o DeclaredFields(scan.currentMessage.Name, lineIdx - 1, lineIdx))}
    ELSE {}

\* C21 Last definition wins: whenever the scan completes a definition of a
\* message name, of an ordinary message or of the entry message of a map
\* field, the registry holds that definition under the name from then on
\* (it changes only when a later definition of the name is completed)
C21_LastDefinitionWins ==
    [][ScanLine => \A d \in EntryDefined \cup MessageDefined : parser'.messages[d.Name] = d]_vars

\* the same, for ordinary messages only
LastOrdinaryDefinitionWins ==
    [][ScanLine => \A d \in MessageDefined : parser'.messages[d.Name] = d]_vars

\* the registry changes in no other step and at no other name
RegistryChangesOnlyByDefinition ==
    [][\A n \in DOMAIN parser'.messages :
          (n \notin DOMAIN parser.messages \/ parser'.messages[n] # parser.messages[n])
          => ScanLine /\ \E d \in EntryDefined \cup MessageDefined : d.Name = n]_vars

\* the scanner holds one accumulator or none
OneAccumulator == scan.inMessage <=> scan.currentMessage # NilMessage

\* the step puts an ordinary message into the registry, or replaces one
RegistersOrdinary(n) ==
    /\ n \in DOMAIN parser'.messages
    /\ n \notin DOMAIN parser.messages \/ parser'.messages[n] # parser.messages[n]

\* C26 Parser accumulator: the scanner accumulates at most one message; an
\* ordinary message enters the registry only by the scan of a line that
\* leaves the open message's brace counter at zero or below; a header line
\* met while a message is open replaces the accumulator by an empty one of
\* the new name and leaves the registry as it was; and the end of a file,
\* or a failure of its read, with a message open leaves the registry as it was
C26_ParserAccumulator ==
    [][/\ OneAccumulator /\ OneAccumulator'
       /\ \A n \in MsgNames :
             RegistersOrdinary(n)
             => /\ ScanLine
                /\ scan.inMessage /\ scan.currentMessage.Name = n
                /\ ScannedLine.kind # "message"
                /\ scan'.braceCount <= 0 /\ ~scan'.inMessage
       /\ (ScanLine /\ ScannedLine.kind = "message")
          => /\ parser'.messages = parser.messages
             /\ scan'.currentMessage = ProtoMessage(ScannedLine.name, << >>)
       /\ (EndOfFile \/ ScanFails) => parser'.messages = parser.messages /\ scan' = NewScan
      ]_vars

\* a.proto is `message A {`, a field, and a second header: Parse has returned,
\* the field of the first A was discarded at the header and the second A was
\* open at the end of the file, so the registry is empty
C26_Witness ==
    /\ builds = 1
    /\ DOMAIN disk.files = {"a.proto"}
    /\ disk.files["a.proto"] # ReadError
    /\ Len(disk.files["a.proto"].lines) = 3
    /\ disk.files["a.proto"].lines[1] = MessageLine("A", TRUE)
    /\ disk.files["a.proto"].lines[2].kind = "field"
    /\ disk.files["a.proto"].lines[2].closes = 0
    /\ disk.files["a.proto"].lines[3].kind = "message"
    /\ ~disk.files["a.proto"].scanErr
    /\ parser.messages = EmptyMap
    /\ failed = {}

\* the orders of BuildOrdersOf give every outcome that an order gives
BuildOrdersCover ==
    builds = 0 =>
        /\ BuildOrdersOf(parser) \subseteq BuildOrders
        /\ \A ord \in BuildOrders :
              \E o \in BuildOrdersOf(parser) : buildSchema(parser, o) = buildSchema(parser, ord)

=============================================================================
